---------------------------- MODULE Spec2Model ----------------------------
(***************************************************************************)
(* Model of the BeeLive alert engine (src/src/alerts/alert-engine.service.ts)*)
(* together with the threshold row it reads and the audit/event sinks it    *)
(* writes to.                                                               *)
(*                                                                         *)
(* Units.  Every "double" column (temperature, humidity, battery and the   *)
(* matching thresholds) is held in tenths of its unit (36.0 C = 360),       *)
(* weights in hundredths of a kilogram (0.5 kg = 50), the integer columns   *)
(* (sound, CO2, honey gain, swarm risk) as they are, and times in           *)
(* milliseconds.  The comparisons of the code are homogeneous in the unit,  *)
(* so each is evaluated exactly, as a comparison of integer products:       *)
(*    v < T * (1 - 0.05)   is   v * 100 < T * (100 - 5).                    *)
(* The code multiplies in IEEE doubles; for the thresholds and the readings *)
(* of the scenarios below the rounded product orders against the reading    *)
(* as the exact one does.                                                   *)
(*                                                                         *)
(* Granularity.  A JavaScript continuation runs without interruption up to  *)
(* its next await of I/O, so one action is one such run: the arrival of a   *)
(* reading runs the synchronous prefix of the eight checks, and the answer  *)
(* of the database to a query resumes the one coroutine that awaits it.     *)
(* An await of a promise that is already settled (a debounced triggerAlert  *)
(* or clearAlert) yields only to micro-tasks of the same invocation, which  *)
(* touch other kinds, so the check is continued in the same action.         *)
(***************************************************************************)
EXTENDS Integers, Sequences, FiniteSets, TLC

(* An optional value: None is null/undefined, Some(x) a present value. *)
None == << >>
Some(x) == << x >>
IsSome(o) == o # None
Get(o) == o[1]

--------------------------------------------------------------------------
(* Bounds of the model *)

(* readings delivered to the engine in one behaviour *)
MaxReadings == 4
(* largest clock value, in steps of ClockStepMs *)
MaxTicks == 2
(* invocations of handleTelemetryInsert that may be in flight together *)
MaxInFlight == 1
(* database queries that may fail in one behaviour *)
MaxDbFailures == 1
(* invocations in flight together where overlapping readings are studied *)
MaxOverlap == 2
(* calls of ThresholdsService in one behaviour *)
MaxCalls == 3

(* The clock advances in steps of 2.5 minutes: half a debounce window, so  *)
(* elapsed times below, equal to and above the window all occur.           *)
ClockStepMs == 150 * 1000

--------------------------------------------------------------------------
(* Program constants *)

ALERT_DEBOUNCE_MS == 5 * 60 * 1000
(* 0.05, in hundredths *)
ALERT_HYSTERESIS_PERCENT == 5
HIVE_ID == "BERLIN-ROOFTOP-01"
MS_PER_HOUR == 1000 * 60 * 60

AlertType ==
  { "TEMP_HIGH", "TEMP_LOW", "HUMIDITY_HIGH", "HUMIDITY_LOW", "WEIGHT_DROP",
    "SOUND_ANOMALY", "CO2_HIGH", "SWARM_RISK", "BATTERY_LOW", "HONEY_GAIN_LOW" }

(* AlertState as the constructor builds it for every alert type *)
InitialAlertState ==
  [ isActive |-> FALSE, lastTriggeredAt |-> None, lastClearedAt |-> None,
    debounceTimer |-> None, lastValue |-> None ]

DEFAULT_THRESHOLDS ==
  [ hiveId |-> HIVE_ID,
    tempMin |-> 300, tempMax |-> 360,
    humidityMin |-> 300, humidityMax |-> 800,
    maxWeightDropPerHourKg |-> 50,
    soundMin |-> 25, soundMax |-> 75,
    co2Max |-> 1000,
    minDailyHoneyGainG |-> -200,
    swarmRiskMax |-> 70,
    batteryMin |-> 200 ]

(* A row as PUT /thresholds can leave it: UpdateThresholdsDto admits        *)
(* tempMin and tempMax down to -10 C, any minDailyHoneyGainG, and 0 for the *)
(* columns bounded below by @Min(0).                                        *)
UpdatedThresholds ==
  [ DEFAULT_THRESHOLDS EXCEPT !.tempMin = -100, !.tempMax = 350,
                              !.minDailyHoneyGainG = 0, !.batteryMin = 0 ]

(* A row with maxWeightDropPerHourKg put to 20 kg/h (the DTO bounds it below *)
(* by 0 only): the clear line 20 * 0.95 is 19 kg/h, in doubles too.          *)
WeightLineThresholds ==
  [ DEFAULT_THRESHOLDS EXCEPT !.maxWeightDropPerHourKg = 2000 ]

(* A row with the sound band put to 20..80 dB (the DTO admits 0..120): the   *)
(* inner bounds 20 * 1.05 and 80 * 0.95 are 21 and 76 dB, in doubles too.    *)
SoundLineThresholds ==
  [ DEFAULT_THRESHOLDS EXCEPT !.soundMin = 20, !.soundMax = 80 ]



--------------------------------------------------------------------------
(* The feed of readings *)

(* A reading with every sensor well inside its band.  recordedAt is held   *)
(* here as an offset to the clock at delivery (see Delivered).             *)
Nominal ==
  [ temperature |-> 330, humidity |-> 500, weightKg |-> 2550, soundDb |-> 50,
    co2Ppm |-> 600, dailyHoneyGainG |-> Some(100), swarmRisk |-> 10,
    batteryPercent |-> 900, recordedAt |-> 0 ]

Sweep(f, values) == { [ Nominal EXCEPT ![f] = v ] : v \in values }

(* A scenario fixes the row the table holds at start-up and the readings    *)
(* the feed may deliver.  In a drift one sensor takes, in any order, values  *)
(* beyond its trigger line, on and between its trigger and clear lines and   *)
(* inside its clear line, while the other sensors stay nominal.  In a script *)
(* the readings come in a fixed order, over and over: it drives two kinds at *)
(* once.                                                                     *)
Drift(row, f, values) ==
  [ row |-> row, feed |-> Sweep(f, values), script |-> << >> ]

Script(row, readings) == [ row |-> row, feed |-> {}, script |-> readings ]

Scenarios ==
  [ tempHigh |->
      Drift(Some(DEFAULT_THRESHOLDS), "temperature", { 330, 342, 361 }),
    tempLow |->
      Drift(Some(DEFAULT_THRESHOLDS), "temperature", { 290, 310, 330 }),
    tempSwing |->
      Script(Some(DEFAULT_THRESHOLDS),
             << [ Nominal EXCEPT !.temperature = 361 ],
                [ Nominal EXCEPT !.temperature = 290 ] >>),
    tempBounce |->
      Script(Some(DEFAULT_THRESHOLDS),
             << [ Nominal EXCEPT !.temperature = 361 ],
                Nominal,
                [ Nominal EXCEPT !.temperature = 361 ],
                [ Nominal EXCEPT !.temperature = 290 ] >>),
    humidityHigh |->
      Drift(Some(DEFAULT_THRESHOLDS), "humidity", { 500, 770, 810 }),
    humidityLow |->
      Drift(Some(DEFAULT_THRESHOLDS), "humidity", { 290, 310, 500 }),
    weight |->
      [ Drift(Some(DEFAULT_THRESHOLDS), "weightKg", { 2550, 2490, 2488 })
          EXCEPT !.feed = @ \cup { [ Nominal EXCEPT
                                       !.weightKg = 2400,
                                       !.recordedAt = 135 * 60 * 1000 ] } ],
    weightLine |->
      Script(Some(WeightLineThresholds),
             << [ Nominal EXCEPT !.weightKg = 4000 ],
                [ Nominal EXCEPT !.weightKg = 2550,
                                 !.recordedAt = 30 * 60 * 1000 ],
                [ Nominal EXCEPT !.weightKg = 1600,
                                 !.recordedAt = 60 * 60 * 1000 ] >>),
    sound |->
      Drift(Some(DEFAULT_THRESHOLDS), "soundDb", { 20, 50, 72, 80 }),
    soundLine |->
      Script(Some(SoundLineThresholds),
             << [ Nominal EXCEPT !.soundDb = 85 ],
                [ Nominal EXCEPT !.soundDb = 76 ] >>),
    co2 |->
      Drift(Some(DEFAULT_THRESHOLDS), "co2Ppm", { 600, 950, 1000, 1001 }),
    swarm |->
      Drift(Some(DEFAULT_THRESHOLDS), "swarmRisk", { 10, 68, 71 }),
    battery |->
      Drift(Some(DEFAULT_THRESHOLDS), "batteryPercent", { 190, 200, 210, 900 }),
    honey |->
      Drift(Some(DEFAULT_THRESHOLDS), "dailyHoneyGainG",
            { None, Some(-250), Some(-205), Some(100) }),
    honeySteady |->
      Script(Some(DEFAULT_THRESHOLDS),
             << [ Nominal EXCEPT !.dailyHoneyGainG = Some(-205) ] >>),
    co2Stamped |->
      Script(Some(DEFAULT_THRESHOLDS),
             << [ Nominal EXCEPT !.co2Ppm = 1001 ],
                [ Nominal EXCEPT !.co2Ppm = 600,
                                 !.recordedAt = ALERT_DEBOUNCE_MS ],
                [ Nominal EXCEPT !.co2Ppm = 1001,
                                 !.recordedAt = 2 * ALERT_DEBOUNCE_MS ] >>),
    two |->
      Script(Some(DEFAULT_THRESHOLDS),
             << [ Nominal EXCEPT !.co2Ppm = 1001 ],
                [ Nominal EXCEPT !.co2Ppm = 1001, !.batteryPercent = 190 ],
                Nominal >>),
    updated |->
      Drift(Some(UpdatedThresholds), "temperature", { -110, -102, 330 }),
    empty |->
      Drift(None, "temperature", { 330, 361 }) ]

(* the readings that may come after n readings have been delivered *)
Upcoming(sc, n) ==
  IF Scenarios[sc].script = << >> THEN Scenarios[sc].feed
  ELSE { Scenarios[sc].script[(n % Len(Scenarios[sc].script)) + 1] }

(* telemetryData as the simulator hands it over: recordedAt is a Date *)
Delivered(r, t) == [ r EXCEPT !.recordedAt = t + r.recordedAt ]

--------------------------------------------------------------------------
(* The comparisons of the checks *)

(* value < T * (1 - HYSTERESIS_PERCENT) *)
BelowHighClear(v, T) == v * 100 < T * (100 - ALERT_HYSTERESIS_PERCENT)
(* value > T * (1 + HYSTERESIS_PERCENT) *)
AboveLowClear(v, T) == v * 100 > T * (100 + ALERT_HYSTERESIS_PERCENT)

(* BadAbove with the trigger comparison made inclusive (>= for >) *)
BadAboveInclusive(v, T, active) ==
  IF v >= T /\ ~active THEN "triggerAlert"
  ELSE IF BelowHighClear(v, T) /\ active THEN "clearAlert"
  ELSE "none"

(* BadAbove without the test of isActive in the trigger condition *)
BadAboveRetriggers(v, T, active) ==
  IF v > T THEN "triggerAlert"
  ELSE IF BelowHighClear(v, T) /\ active THEN "clearAlert"
  ELSE "none"

(* if (v > T && !isActive) trigger; else if (v < T*(1-h) && isActive) clear *)
BadAbove(v, T, active) ==
  IF v > T /\ ~active THEN "triggerAlert"
  ELSE IF BelowHighClear(v, T) /\ active THEN "clearAlert"
  ELSE "none"

(* BadBelow without the test of isActive in the trigger condition *)
BadBelowRetriggers(v, T, active) ==
  IF v < T THEN "triggerAlert"
  ELSE IF AboveLowClear(v, T) /\ active THEN "clearAlert"
  ELSE "none"

(* BadBelow with the clear comparison made inclusive (>= for >) *)
BadBelowInclusive(v, T, active) ==
  IF v < T /\ ~active THEN "triggerAlert"
  ELSE IF v * 100 >= T * (100 + ALERT_HYSTERESIS_PERCENT) /\ active
  THEN "clearAlert"
  ELSE "none"

(* if (v < T && !isActive) trigger; else if (v > T*(1+h) && isActive) clear *)
BadBelow(v, T, active) ==
  IF v < T /\ ~active THEN "triggerAlert"
  ELSE IF AboveLowClear(v, T) /\ active THEN "clearAlert"
  ELSE "none"

(* checkSoundAlerts: one state, two bounds *)
SoundAnomaly(sound, th, active) ==
  LET isAnomaly == sound > th.soundMax \/ sound < th.soundMin
      isNormal  == /\ sound * 100 <= th.soundMax * (100 - ALERT_HYSTERESIS_PERCENT)
                   /\ sound * 100 >= th.soundMin * (100 + ALERT_HYSTERESIS_PERCENT)
  IN IF isAnomaly /\ ~active THEN "triggerAlert"
     ELSE IF isNormal /\ active THEN "clearAlert"
     ELSE "none"

(* WeightDrop clearing the alert when the weight has stopped falling *)
WeightDropClearsWhenSteady(data, th, active, lastWeight, lastWeightTime) ==
  IF IsSome(lastWeight) /\ IsSome(lastWeightTime)
  THEN LET timeDiffMs == data.recordedAt - Get(lastWeightTime)
           weightDiff == Get(lastWeight) - data.weightKg
           secs       == timeDiffMs \div 1000
           T          == th.maxWeightDropPerHourKg
       IN IF timeDiffMs > 0 /\ timeDiffMs <= MS_PER_HOUR /\ weightDiff > 0
          THEN LET dropPerHour == (weightDiff * 3600) \div secs
               IN IF weightDiff * 3600 > T * secs /\ ~active
                  THEN [ fn |-> "triggerAlert", value |-> Some(dropPerHour) ]
                  ELSE IF /\ weightDiff * 3600 * 100
                               <= T * (100 - ALERT_HYSTERESIS_PERCENT) * secs
                          /\ active
                  THEN [ fn |-> "clearAlert", value |-> Some(dropPerHour) ]
                  ELSE [ fn |-> "none", value |-> None ]
          ELSE IF active THEN [ fn |-> "clearAlert", value |-> Some(0) ]
          ELSE [ fn |-> "none", value |-> None ]
  ELSE [ fn |-> "none", value |-> None ]

(* WeightDrop without the upper bound of one hour on the time difference *)
WeightDropNoWindow(data, th, active, lastWeight, lastWeightTime) ==
  IF IsSome(lastWeight) /\ IsSome(lastWeightTime)
  THEN LET timeDiffMs == data.recordedAt - Get(lastWeightTime)
           weightDiff == Get(lastWeight) - data.weightKg
           secs       == timeDiffMs \div 1000
           T          == th.maxWeightDropPerHourKg
       IN IF timeDiffMs > 0 /\ weightDiff > 0
          THEN LET dropPerHour == (weightDiff * 3600) \div secs
               IN IF weightDiff * 3600 > T * secs /\ ~active
                  THEN [ fn |-> "triggerAlert", value |-> Some(dropPerHour) ]
                  ELSE IF /\ weightDiff * 3600 * 100
                               <= T * (100 - ALERT_HYSTERESIS_PERCENT) * secs
                          /\ active
                  THEN [ fn |-> "clearAlert", value |-> Some(dropPerHour) ]
                  ELSE [ fn |-> "none", value |-> None ]
          ELSE [ fn |-> "none", value |-> None ]
  ELSE [ fn |-> "none", value |-> None ]

(* checkWeightAlerts, the part before the tracker is written.  The drop    *)
(* rate is weightDiff / (timeDiffMs / 3600000); it is compared by cross     *)
(* multiplication, with both times taken in seconds (the timestamps of the  *)
(* feed are whole seconds).  The value handed on is the rate, rounded down. *)
WeightDrop(data, th, active, lastWeight, lastWeightTime) ==
  IF IsSome(lastWeight) /\ IsSome(lastWeightTime)
  THEN LET timeDiffMs == data.recordedAt - Get(lastWeightTime)
           weightDiff == Get(lastWeight) - data.weightKg
           secs       == timeDiffMs \div 1000
           T          == th.maxWeightDropPerHourKg
       IN IF timeDiffMs > 0 /\ timeDiffMs <= MS_PER_HOUR /\ weightDiff > 0
          THEN LET dropPerHour == (weightDiff * 3600) \div secs
               IN IF weightDiff * 3600 > T * secs /\ ~active
                  THEN [ fn |-> "triggerAlert", value |-> Some(dropPerHour) ]
                  ELSE IF /\ weightDiff * 3600 * 100
                               <= T * (100 - ALERT_HYSTERESIS_PERCENT) * secs
                          /\ active
                  THEN [ fn |-> "clearAlert", value |-> Some(dropPerHour) ]
                  ELSE [ fn |-> "none", value |-> None ]
          ELSE [ fn |-> "none", value |-> None ]
  ELSE [ fn |-> "none", value |-> None ]

(* checkHoneyGainAlerts reading a null gain as 0, as a comparison would *)
HoneyGainNullAsZero(honeyGain, th, active) ==
  IF honeyGain = None THEN BadBelow(0, th.minDailyHoneyGainG, active)
  ELSE BadBelow(Get(honeyGain), th.minDailyHoneyGainG, active)

(* checkHoneyGainAlerts: returns at once on a null or undefined gain *)
HoneyGain(honeyGain, th, active) ==
  IF honeyGain = None THEN "none"
  ELSE BadBelow(Get(honeyGain), th.minDailyHoneyGainG, active)

(* What the check of kind k decides for a reading: the function it calls   *)
(* and the value it passes.                                                *)
Decide(k, data, th, active, lastWeight, lastWeightTime) ==
  CASE k = "TEMP_HIGH" ->
         [ fn |-> BadAbove(data.temperature, th.tempMax, active),
           value |-> Some(data.temperature) ]
    [] k = "TEMP_LOW" ->
         [ fn |-> BadBelow(data.temperature, th.tempMin, active),
           value |-> Some(data.temperature) ]
    [] k = "HUMIDITY_HIGH" ->
         [ fn |-> BadAbove(data.humidity, th.humidityMax, active),
           value |-> Some(data.humidity) ]
    [] k = "HUMIDITY_LOW" ->
         [ fn |-> BadBelow(data.humidity, th.humidityMin, active),
           value |-> Some(data.humidity) ]
    [] k = "WEIGHT_DROP" ->
         WeightDrop(data, th, active, lastWeight, lastWeightTime)
    [] k = "SOUND_ANOMALY" ->
         [ fn |-> SoundAnomaly(data.soundDb, th, active),
           value |-> Some(data.soundDb) ]
    [] k = "CO2_HIGH" ->
         [ fn |-> BadAbove(data.co2Ppm, th.co2Max, active),
           value |-> Some(data.co2Ppm) ]
    [] k = "SWARM_RISK" ->
         [ fn |-> BadAbove(data.swarmRisk, th.swarmRiskMax, active),
           value |-> Some(data.swarmRisk) ]
    [] k = "BATTERY_LOW" ->
         [ fn |-> BadBelow(data.batteryPercent, th.batteryMin, active),
           value |-> Some(data.batteryPercent) ]
    [] k = "HONEY_GAIN_LOW" ->
         [ fn |-> HoneyGain(data.dailyHoneyGainG, th, active),
           value |-> data.dailyHoneyGainG ]

--------------------------------------------------------------------------
(* triggerAlert and clearAlert up to their await of the audit insert.      *)
(* Each returns the AlertState it leaves and whether it went on to insert.  *)

(* triggerAlert without the debounce test of lines 446-454 *)
triggerAlertNoDebounce(state, value, t) ==
  [ state |-> [ state EXCEPT !.debounceTimer = None,
                             !.isActive = TRUE,
                             !.lastTriggeredAt = Some(t),
                             !.lastValue = value ],
    inserts |-> TRUE ]

(* triggerAlert recording the value before it tests the debounce *)
triggerAlertStoresValueFirst(state, value, t) ==
  IF /\ IsSome(state.lastTriggeredAt)
     /\ t - Get(state.lastTriggeredAt) < ALERT_DEBOUNCE_MS
  THEN [ state |-> [ state EXCEPT !.lastValue = value ], inserts |-> FALSE ]
  ELSE [ state |-> [ state EXCEPT !.debounceTimer = None,
                                  !.isActive = TRUE,
                                  !.lastTriggeredAt = Some(t),
                                  !.lastValue = value ],
         inserts |-> TRUE ]

triggerAlert(state, value, t) ==
  IF /\ IsSome(state.lastTriggeredAt)
     /\ t - Get(state.lastTriggeredAt) < ALERT_DEBOUNCE_MS
  THEN [ state |-> state, inserts |-> FALSE ]
  ELSE [ state |-> [ state EXCEPT !.debounceTimer = None,
                                  !.isActive = TRUE,
                                  !.lastTriggeredAt = Some(t),
                                  !.lastValue = value ],
         inserts |-> TRUE ]

(* clearAlert resetting the trigger time when it clears *)
clearAlertForgetsTrigger(state, value, t) ==
  IF ~state.isActive
  THEN [ state |-> state, inserts |-> FALSE ]
  ELSE IF /\ IsSome(state.lastClearedAt)
          /\ t - Get(state.lastClearedAt) < ALERT_DEBOUNCE_MS
  THEN [ state |-> state, inserts |-> FALSE ]
  ELSE [ state |-> [ state EXCEPT !.isActive = FALSE,
                                  !.lastTriggeredAt = None,
                                  !.lastClearedAt = Some(t),
                                  !.lastValue = value ],
         inserts |-> TRUE ]

(* clearAlert writing the clear time before it tests the debounce *)
clearAlertStampsFirst(state, value, t) ==
  IF ~state.isActive
  THEN [ state |-> state, inserts |-> FALSE ]
  ELSE IF IsSome(state.lastClearedAt)
  THEN [ state |-> [ state EXCEPT !.lastClearedAt = Some(t) ],
         inserts |-> FALSE ]
  ELSE [ state |-> [ state EXCEPT !.isActive = FALSE,
                                  !.lastClearedAt = Some(t),
                                  !.lastValue = value ],
         inserts |-> TRUE ]

clearAlert(state, value, t) ==
  IF ~state.isActive
  THEN [ state |-> state, inserts |-> FALSE ]
  ELSE IF /\ IsSome(state.lastClearedAt)
          /\ t - Get(state.lastClearedAt) < ALERT_DEBOUNCE_MS
  THEN [ state |-> state, inserts |-> FALSE ]
  ELSE [ state |-> [ state EXCEPT !.isActive = FALSE,
                                  !.lastClearedAt = Some(t),
                                  !.lastValue = value ],
         inserts |-> TRUE ]

--------------------------------------------------------------------------
(* The eight check functions of handleTelemetryInsert, in the order of the *)
(* Promise.all array, and the kinds each evaluates, in order.              *)

CheckOrder ==
  << "checkTemperatureAlerts", "checkHumidityAlerts", "checkWeightAlerts",
     "checkSoundAlerts", "checkCo2Alerts", "checkSwarmRiskAlerts",
     "checkBatteryAlerts", "checkHoneyGainAlerts" >>

Checks == { CheckOrder[n] : n \in DOMAIN CheckOrder }

(* Stages with checkHoneyGainAlerts evaluating its kind a second time *)
StagesHoneyTwice(c) ==
  CASE c = "checkTemperatureAlerts" -> << "TEMP_HIGH", "TEMP_LOW" >>
    [] c = "checkHumidityAlerts"    -> << "HUMIDITY_HIGH", "HUMIDITY_LOW" >>
    [] c = "checkWeightAlerts"      -> << "WEIGHT_DROP" >>
    [] c = "checkSoundAlerts"       -> << "SOUND_ANOMALY" >>
    [] c = "checkCo2Alerts"         -> << "CO2_HIGH" >>
    [] c = "checkSwarmRiskAlerts"   -> << "SWARM_RISK" >>
    [] c = "checkBatteryAlerts"     -> << "BATTERY_LOW" >>
    [] c = "checkHoneyGainAlerts"   -> << "HONEY_GAIN_LOW", "HONEY_GAIN_LOW" >>

Stages(c) ==
  CASE c = "checkTemperatureAlerts" -> << "TEMP_HIGH", "TEMP_LOW" >>
    [] c = "checkHumidityAlerts"    -> << "HUMIDITY_HIGH", "HUMIDITY_LOW" >>
    [] c = "checkWeightAlerts"      -> << "WEIGHT_DROP" >>
    [] c = "checkSoundAlerts"       -> << "SOUND_ANOMALY" >>
    [] c = "checkCo2Alerts"         -> << "CO2_HIGH" >>
    [] c = "checkSwarmRiskAlerts"   -> << "SWARM_RISK" >>
    [] c = "checkBatteryAlerts"     -> << "BATTERY_LOW" >>
    [] c = "checkHoneyGainAlerts"   -> << "HONEY_GAIN_LOW" >>

(* the number of kinds each check evaluates *)
StageCount == [ c \in Checks |-> Len(Stages(c)) ]

(* a debounce that reads the time of the reading *)
DebounceClockOfReading(data, t) == data.recordedAt

(* The time triggerAlert and clearAlert measure the debounce on and stamp    *)
(* the flip with: Date.now() and new Date(), the clock at processing; the    *)
(* reading is not handed to them.                                            *)
DebounceClock(data, t) == t

(* the call a check makes, applied to the AlertState of its kind *)
Call(state, fn, value, t) ==
  IF fn = "triggerAlert" THEN triggerAlert(state, value, t)
  ELSE clearAlert(state, value, t)

(* One check run from its stage j up to its next await of an insert, or to *)
(* its end: the stage it will resume at, the kinds it evaluated, and the    *)
(* calls it made with what each returned.  A call                           *)
(* that returns without inserting (debounced) and a stage whose conditions  *)
(* both fail let the check run on; a call that inserts suspends it.         *)
RECURSIVE RunFrom(_, _, _, _, _, _, _, _)
RunFrom(c, j, data, states, th, lastW, lastWT, t) ==
  IF j > StageCount[c] THEN [ pos |-> j, checked |-> << >>, made |-> << >> ]
  ELSE LET k == Stages(c)[j]
           d == Decide(k, data, th, states[k].isActive, lastW, lastWT)
           seen == << k >>
       IN IF d.fn = "none"
          THEN LET rest == RunFrom(c, j + 1, data, states, th, lastW, lastWT, t)
               IN [ rest EXCEPT !.checked = seen \o @ ]
          ELSE LET r == Call(states[k], d.fn, d.value, DebounceClock(data, t))
                   call == << [ check |-> c, type |-> k, fn |-> d.fn,
                                value |-> d.value, state |-> r.state,
                                inserts |-> r.inserts ] >>
               IN IF r.inserts
                  THEN [ pos |-> j + 1, checked |-> seen, made |-> call ]
                  ELSE LET rest == RunFrom(c, j + 1, data, states, th, lastW,
                                           lastWT, t)
                       IN [ rest EXCEPT !.checked = seen \o @,
                                        !.made = call \o @ ]

RECURSIVE Concat(_, _)
Concat(f, n) == IF n = 0 THEN << >> ELSE Concat(f, n - 1) \o f[n]

--------------------------------------------------------------------------
(* State *)

VARIABLES
  alertStates,     \* AlertEngineService.alertStates: kind -> AlertState
  thresholds,      \* AlertEngineService.thresholds: the cached row, or None
  lastWeight,      \* AlertEngineService.lastWeight
  lastWeightTime,  \* AlertEngineService.lastWeightTime
  thresholdsRow,   \* the row of table thresholds for HIVE_ID, or None
  eventLogs,       \* the rows of table event_logs, in insertion order
  emitted,         \* the 'alert.*' events emitted, in order
  booted,          \* onModuleInit has run
  now,             \* Date.now()
  scenario,        \* the scenario of this behaviour
  delivered,       \* 'telemetry.inserted' events emitted so far
  inv,             \* the invocations of handleTelemetryInsert in flight
  connection,      \* queries sent on the one mysql2 connection, not answered
  dbFailures,      \* queries that have failed so far
  gateway,         \* TelemetryGateway: lastTelemetry and connectedClients
  svc,             \* the calls of ThresholdsService in flight
  did,             \* what the last step did, in order (observer)
  obs              \* per kind, what has been observed of it (observer)

vars ==
  << alertStates, thresholds, lastWeight, lastWeightTime, thresholdsRow,
     eventLogs, emitted, booted, now, scenario, delivered, inv, connection,
     dbFailures, gateway, svc, did, obs >>

(* an entry of did.  op is "call" (triggerAlert or clearAlert was called),   *)
(* "flip" (isActive changed), "insert" (an audit row was stored),            *)
(* "insertError" (the insert failed), "emit" (an event was emitted),         *)
(* "fulfilled" or "rejected" (the promise of handleTelemetryInsert settled). *)
Ev(op, i, k, fn, value, label) ==
  [ op |-> op, inv |-> i, type |-> k, fn |-> fn, value |-> value,
    label |-> label ]

(* the entry of did for the checks a step ran: the reading they read and     *)
(* the kinds they evaluated on it                                            *)
Evaluated(i, data, kinds) ==
  [ op |-> "check", inv |-> i, data |-> data, kinds |-> kinds ]

(* a query waiting on the connection *)
Query(q, i, call) == [ q |-> q, inv |-> i, call |-> call ]

(* What is observed of one kind: its last three flips with their times,     *)
(* the number of its flips to active and to inactive, the number of its      *)
(* audit inserts that failed, the times of the first and the last call of    *)
(* triggerAlert for it, the function (triggerAlert or clearAlert) that last  *)
(* went past its debounce test for it with the value it was called with, and *)
(* whether that function ever did so twice running.                          *)
InitialObs ==
  [ recent |-> << >>, nTriggered |-> 0, nCleared |-> 0, nFailed |-> 0,
    firstTrigger |-> None, lastTrigger |-> None, lastDone |-> "",
    passedValue |-> None, repeated |-> FALSE ]

LastThree(s) == IF Len(s) > 3 THEN SubSeq(s, Len(s) - 2, Len(s)) ELSE s

(* what a call m of triggerAlert or clearAlert, made at time t for a kind    *)
(* that was active or not before it, adds to what is observed of the kind   *)
Observe(o, m, wasActive, t) ==
  LET flipped == m.state.isActive # wasActive
      trig == m.fn = "triggerAlert"
      flip == [ dir |-> IF m.state.isActive THEN "TRIGGERED" ELSE "CLEARED",
                at |-> t ]
  IN [ recent |-> IF flipped THEN LastThree(Append(o.recent, flip))
                  ELSE o.recent,
       nTriggered |-> IF flipped /\ m.state.isActive THEN o.nTriggered + 1
                      ELSE o.nTriggered,
       nCleared |-> IF flipped /\ ~m.state.isActive THEN o.nCleared + 1
                    ELSE o.nCleared,
       nFailed |-> o.nFailed,
       firstTrigger |-> IF trig /\ o.firstTrigger = None THEN Some(t)
                        ELSE o.firstTrigger,
       lastTrigger |-> IF trig THEN Some(t) ELSE o.lastTrigger,
       lastDone |-> IF m.inserts THEN m.fn ELSE o.lastDone,
       passedValue |-> IF m.inserts THEN Some(m.value) ELSE o.passedValue,
       repeated |-> o.repeated \/ ( m.inserts /\ m.fn = o.lastDone ) ]

(* TelemetryGateway as it is constructed: nothing cached, nobody connected *)
InitialGateway == [ lastTelemetry |-> None, connectedClients |-> {} ]

Init ==
  /\ alertStates = [ k \in AlertType |-> InitialAlertState ]
  /\ thresholds = None
  /\ lastWeight = None
  /\ lastWeightTime = None
  /\ scenario \in DOMAIN Scenarios
  /\ thresholdsRow = Scenarios[scenario].row
  /\ eventLogs = << >>
  /\ emitted = << >>
  /\ booted = FALSE
  /\ now = 0
  /\ delivered = 0
  /\ inv = [ i \in {} |-> None ]
  /\ connection = << >>
  /\ dbFailures = 0
  /\ gateway = InitialGateway
  /\ svc = << >>
  /\ did = << >>
  /\ obs = [ k \in AlertType |-> InitialObs ]

--------------------------------------------------------------------------
(* The sink side of triggerAlert and clearAlert: what follows the await of *)
(* the audit insert.                                                       *)

(* the type column written without the marker of a clear *)
RowTypeUnsuffixed(type, fn) == type

(* the type column of the audit row *)
RowType(type, fn) == IF fn = "triggerAlert" THEN type ELSE type \o "_CLEARED"

EventName(fn) == IF fn = "triggerAlert" THEN "alert.triggered" ELSE "alert.cleared"

(* SinkSteps with the emit moved in front of the awaited insert *)
SinkStepsEmitFirst(ok, i, call) ==
  << Ev("emit", i, call.type, call.fn, call.value, EventName(call.fn)),
     Ev(IF ok THEN "insert" ELSE "insertError", i, call.type, call.fn,
        call.value, RowType(call.type, call.fn)) >>

(* try { await insert; emit; log } catch { log }: the row the database     *)
(* stored and the event emitted after it when the insert succeeded, and     *)
(* the logged error alone when it failed.                                   *)
SinkSteps(ok, i, call) ==
  IF ok
  THEN << Ev("insert", i, call.type, call.fn, call.value,
             RowType(call.type, call.fn)),
          Ev("emit", i, call.type, call.fn, call.value, EventName(call.fn)) >>
  ELSE << Ev("insertError", i, call.type, call.fn, call.value,
             RowType(call.type, call.fn)) >>

(* a catch block that logs and throws the error on *)
CatchInsertErrorRethrows(state) == [ state |-> state, rethrown |-> TRUE ]

(* The catch block of triggerAlert / clearAlert: it logs the error, leaves  *)
(* the AlertState as the flip wrote it and does not rethrow.                *)
CatchInsertError(state) == [ state |-> state, rethrown |-> FALSE ]

(* the rows stored and the events emitted by a sequence of steps *)
RowsOf(d) ==
  LET Stored(e) == e.op = "insert"
      st == SelectSeq(d, Stored)
  IN [ n \in DOMAIN st |-> [ hiveId |-> HIVE_ID, type |-> st[n].label ] ]

EventsOf(d) ==
  LET Sent(e) == e.op = "emit"
      st == SelectSeq(d, Sent)
  IN [ n \in DOMAIN st |-> [ event |-> st[n].label, type |-> st[n].type ] ]

--------------------------------------------------------------------------
(* Running checks of invocation i.  cs are the checks that run now, each   *)
(* from pos0[c]; the others stay where they wait.  states0, q0 and d0 are   *)
(* the alert states and the connection queue the run starts from and what   *)
(* the step has done before it.  The checks of one invocation work on       *)
(* different kinds, so each is run from states0.  history says whether the  *)
(* model keeps the rows stored, the events emitted and what is observed of  *)
(* the kinds: the engine reads none of them, and a run without end keeps    *)
(* none.                                                                    *)

(* the last two statements of checkWeightAlerts with the time left out *)
WeightTrackerWeightOnly(done, data, lastW, lastWT) ==
  IF done
  THEN [ lastWeight |-> Some(data.weightKg), lastWeightTime |-> lastWT ]
  ELSE [ lastWeight |-> lastW, lastWeightTime |-> lastWT ]

(* The last two statements of checkWeightAlerts, reached when the check has *)
(* run to its end (done): this.lastWeight = currentWeight;                  *)
(* this.lastWeightTime = currentTime.                                       *)
WeightTracker(done, data, lastW, lastWT) ==
  IF done
  THEN [ lastWeight |-> Some(data.weightKg),
         lastWeightTime |-> Some(data.recordedAt) ]
  ELSE [ lastWeight |-> lastW, lastWeightTime |-> lastWT ]

InOrder(res, cs, field) ==
  IF Cardinality(cs) <= 1
  THEN IF cs = {} THEN << >> ELSE res[CHOOSE c \in cs : TRUE][field]
  ELSE Concat([ n \in DOMAIN CheckOrder |->
                  IF CheckOrder[n] \in cs THEN res[CheckOrder[n]][field]
                  ELSE << >> ],
              Len(CheckOrder))

FlipsOf(i, made, states0) ==
  LET Flipped(m) == m.state.isActive # states0[m.type].isActive
      fl == SelectSeq(made, Flipped)
  IN [ n \in DOMAIN fl |->
         Ev("flip", i, fl[n].type, fl[n].fn, fl[n].value,
            IF fl[n].state.isActive THEN "TRIGGERED" ELSE "CLEARED") ]

RunChecksWith(history, i, data, th, cs, pos0, awaits0, rejected, states0, q0, d0) ==
  \E res \in { [ c \in cs |->
                   RunFrom(c, pos0[c], data, states0, th, lastWeight,
                           lastWeightTime, now) ] } :
  \E made \in { InOrder(res, cs, "made") } :
  \E checked \in { InOrder(res, cs, "checked") } :
  \E pos1 \in { [ c \in Checks |->
                    IF c \in cs THEN res[c].pos ELSE pos0[c] ] } :
  \E awaits1 \in { [ c \in Checks |->
                       IF c \in cs
                       THEN \E n \in DOMAIN made :
                              made[n].inserts /\ made[n].check = c
                       ELSE awaits0[c] ] } :
  \E finished \in { \A c \in Checks :
                       pos1[c] > StageCount[c] /\ ~awaits1[c] } :
    LET Inserts(m) == m.inserts
        issued == SelectSeq(made, Inserts)
        \* checkWeightAlerts writes the tracker after its await
        weightDone == /\ "checkWeightAlerts" \in cs
                      /\ ~awaits1["checkWeightAlerts"]
        ending == IF finished /\ ~rejected
                  THEN << Ev("fulfilled", i, "", "", None, "") >>
                  ELSE << >>
        d1 == d0
              \o ( IF checked = << >> THEN << >>
                   ELSE << Evaluated(i, data,
                                     { checked[n] : n \in DOMAIN checked }) >> )
              \o [ n \in DOMAIN made |->
                     Ev("call", i, made[n].type, made[n].fn, made[n].value, "") ]
              \o FlipsOf(i, made, states0)
              \o ending
    IN /\ alertStates' =
            [ k \in AlertType |->
                IF \E n \in DOMAIN made : made[n].type = k
                THEN made[CHOOSE n \in DOMAIN made : made[n].type = k].state
                ELSE states0[k] ]
       /\ lastWeight' =
            WeightTracker(weightDone, data, lastWeight, lastWeightTime).lastWeight
       /\ lastWeightTime' =
            WeightTracker(weightDone, data, lastWeight,
                          lastWeightTime).lastWeightTime
       /\ connection' =
            q0 \o [ n \in DOMAIN issued |->
                      Query("insert", i,
                            Some([ check |-> issued[n].check,
                                   type |-> issued[n].type,
                                   fn |-> issued[n].fn,
                                   value |-> issued[n].value ])) ]
       /\ eventLogs' = IF history THEN eventLogs \o RowsOf(d0) ELSE eventLogs
       /\ emitted' = IF history THEN emitted \o EventsOf(d0) ELSE emitted
       /\ did' = d1
       /\ obs' =
            [ k \in AlertType |->
                IF ~history THEN obs[k] ELSE
                IF \E n \in DOMAIN made : made[n].type = k
                THEN Observe(obs[k],
                             made[CHOOSE n \in DOMAIN made : made[n].type = k],
                             states0[k].isActive, now)
                ELSE IF \E n \in DOMAIN d0 :
                          d0[n].op = "insertError" /\ d0[n].type = k
                THEN [ obs[k] EXCEPT !.nFailed = @ + 1 ]
                ELSE obs[k] ]
       /\ inv' = IF finished
                 THEN [ j \in DOMAIN inv \ {i} |-> inv[j] ]
                 ELSE [ j \in DOMAIN inv \cup {i} |->
                          IF j = i
                          THEN [ data |-> data, loading |-> FALSE,
                                 pos |-> pos1, awaits |-> awaits1,
                                 rejected |-> rejected ]
                          ELSE inv[j] ]

RunChecks(i, data, th, cs, pos0, awaits0, rejected, states0, q0, d0) ==
  RunChecksWith(TRUE, i, data, th, cs, pos0, awaits0, rejected, states0, q0, d0)

FirstStage == [ c \in Checks |-> 1 ]
NoAwait == [ c \in Checks |-> FALSE ]

--------------------------------------------------------------------------
(* Actions *)

(* loadThresholds with a catch block that caches the default thresholds *)
LoadedThresholdsDefaultOnError(cached, ok, row) ==
  IF ~ok THEN Some(DEFAULT_THRESHOLDS)
  ELSE IF row # None THEN row ELSE cached

(* loadThresholds, given the answer of the select: the row replaces the    *)
(* cache when there is one; no row and a failed query leave the cache.     *)
LoadedThresholds(cached, ok, row) ==
  IF ok /\ row # None THEN row ELSE cached

CanFail == dbFailures < MaxDbFailures

(* a connection that answers the query sent last *)
DequeueNewest(q) == [ query |-> q[Len(q)], rest |-> SubSeq(q, 1, Len(q) - 1) ]

(* The one mysql2 connection that createConnection opens executes the       *)
(* queries sent on it one at a time, in the order they were sent: the query  *)
(* answered next and the queries that go on waiting.                         *)
Dequeue(q) == [ query |-> Head(q), rest |-> Tail(q) ]

(* onModuleInit: await loadThresholds().  The listeners are registered     *)
(* after the modules are initialised, so nothing runs in between.          *)
OnModuleInit(ok) ==
  /\ ~booted
  /\ ~ok => CanFail
  /\ booted' = TRUE
  /\ thresholds' = LoadedThresholds(thresholds, ok, thresholdsRow)
  /\ dbFailures' = IF ok THEN dbFailures ELSE dbFailures + 1
  /\ did' = << >>
  /\ UNCHANGED << alertStates, lastWeight, lastWeightTime, thresholdsRow,
                  eventLogs, emitted, now, scenario, delivered, inv,
                  connection, obs >>
  /\ UNCHANGED << gateway, svc >>

(* time passes *)
Tick ==
  /\ booted
  /\ now + ClockStepMs <= MaxTicks * ClockStepMs
  /\ now' = now + ClockStepMs
  /\ did' = << >>
  /\ UNCHANGED << alertStates, thresholds, lastWeight, lastWeightTime,
                  thresholdsRow, eventLogs, emitted, booted, scenario,
                  delivered, inv, connection, dbFailures, obs >>
  /\ UNCHANGED << gateway, svc >>

(* seedThresholds / getThresholds: the default row is created when the     *)
(* table holds none for the hive.                                          *)
CreateDefaultRow ==
  /\ thresholdsRow = None
  /\ thresholdsRow' = Some(DEFAULT_THRESHOLDS)
  /\ did' = << >>
  /\ UNCHANGED << alertStates, thresholds, lastWeight, lastWeightTime,
                  eventLogs, emitted, booted, now, scenario, delivered, inv,
                  connection, dbFailures, obs >>
  /\ UNCHANGED << gateway, svc >>

(* handleTelemetryInsert(telemetryData), up to the first await of I/O *)
HandleTelemetryInsert(r) ==
  /\ booted
  /\ delivered < MaxReadings
  /\ delivered' = delivered + 1
  /\ LET i == delivered + 1
         data == Delivered(r, now)
     IN IF thresholds = None
        THEN /\ inv' = [ j \in DOMAIN inv \cup {i} |->
                           IF j = i
                           THEN [ data |-> data, loading |-> TRUE,
                                  pos |-> FirstStage, awaits |-> NoAwait,
                                  rejected |-> FALSE ]
                           ELSE inv[j] ]
             /\ connection' = Append(connection, Query("select", i, None))
             /\ did' = << >>
             /\ UNCHANGED << alertStates, lastWeight, lastWeightTime,
                             eventLogs, emitted, obs >>
        ELSE RunChecks(i, data, Get(thresholds), Checks, FirstStage, NoAwait,
                       FALSE, alertStates, connection, << >>)
  /\ UNCHANGED << thresholds, thresholdsRow, booted, now, scenario, dbFailures >>
  /\ UNCHANGED << gateway, svc >>

(* 'telemetry.inserted' is emitted while fewer than MaxInFlight invocations *)
(* of the listener are in flight                                            *)
TelemetryInserted(r) ==
  /\ Cardinality(DOMAIN inv) < MaxInFlight
  /\ HandleTelemetryInsert(r)

(* The select of loadThresholds is answered and handleTelemetryInsert runs *)
(* on: it returns when there is still no cached row, and else starts the    *)
(* eight checks.                                                           *)
LoadSettles(ok) ==
  /\ connection # << >>
  /\ Dequeue(connection).query.q = "select"
  /\ ~ok => CanFail
  /\ dbFailures' = IF ok THEN dbFailures ELSE dbFailures + 1
  /\ LET i == Dequeue(connection).query.inv
         loaded == LoadedThresholds(thresholds, ok, thresholdsRow)
     IN /\ thresholds' = loaded
        /\ IF loaded = None
           THEN /\ inv' = [ j \in DOMAIN inv \ {i} |-> inv[j] ]
                /\ connection' = Dequeue(connection).rest
                /\ did' = << Ev("fulfilled", i, "", "", None, "") >>
                /\ UNCHANGED << alertStates, lastWeight, lastWeightTime,
                                eventLogs, emitted, obs >>
           ELSE RunChecks(i, inv[i].data, Get(loaded), Checks, FirstStage,
                          NoAwait, FALSE, alertStates, Dequeue(connection).rest, << >>)
  /\ UNCHANGED << thresholdsRow, booted, now, scenario, delivered >>
  /\ UNCHANGED << gateway, svc >>

(* The audit insert at the head of the connection is answered and the      *)
(* check that awaits it runs on: the rest of the try block or the catch     *)
(* block, then the statements after the call up to the next await.          *)
InsertSettlesWith(history, ok) ==
  /\ connection # << >>
  /\ Dequeue(connection).query.q = "insert"
  /\ ~ok => CanFail
  /\ dbFailures' = IF ok THEN dbFailures ELSE dbFailures + 1
  /\ LET i == Dequeue(connection).query.inv
         call == Get(Dequeue(connection).query.call)
         c == call.check
         caught == CatchInsertError(alertStates[call.type])
         states0 == IF ok THEN alertStates
                    ELSE [ alertStates EXCEPT ![call.type] = caught.state ]
         thrown == ~ok /\ caught.rethrown
         d0 == SinkSteps(ok, i, call)
               \o ( IF thrown /\ ~inv[i].rejected
                    THEN << Ev("rejected", i, "", "", None, "") >>
                    ELSE << >> )
         \* a check that threw runs no further
         pos0 == IF thrown
                 THEN [ inv[i].pos EXCEPT ![c] = StageCount[c] + 1 ]
                 ELSE inv[i].pos
         awaits0 == [ inv[i].awaits EXCEPT ![c] = FALSE ]
     IN RunChecksWith(history, i, inv[i].data, Get(thresholds),
                      IF thrown THEN {} ELSE {c}, pos0, awaits0,
                      inv[i].rejected \/ thrown, states0,
                      Dequeue(connection).rest, d0)
  /\ UNCHANGED << thresholds, thresholdsRow, booted, now, scenario, delivered >>
  /\ UNCHANGED << gateway, svc >>

InsertSettles(ok) == InsertSettlesWith(TRUE, ok)

Next ==
  \/ \E ok \in BOOLEAN : OnModuleInit(ok)
  \/ Tick
  \/ CreateDefaultRow
  \/ \E r \in Upcoming(scenario, delivered) : TelemetryInserted(r)
  \/ \E ok \in BOOLEAN : LoadSettles(ok)
  \/ \E ok \in BOOLEAN : InsertSettles(ok)

Spec == Init /\ [][Next]_vars

--------------------------------------------------------------------------
(* The engine with overlapping invocations.  The simulator emits            *)
(* 'telemetry.inserted' from a timer and does not await the listener, and   *)
(* handleTelemetryInsert takes no lock, so a reading may arrive while the    *)
(* invocations of earlier readings still await the database.  The scripted  *)
(* scenarios and the empty table are run with up to MaxOverlap invocations   *)
(* in flight.                                                               *)

OverlapScenarios == { "tempSwing", "two", "weightLine", "empty" }

InitOverlap == Init /\ scenario \in OverlapScenarios

TelemetryOverlaps(r) ==
  /\ Cardinality(DOMAIN inv) < MaxOverlap
  /\ HandleTelemetryInsert(r)

NextOverlap ==
  \/ \E ok \in BOOLEAN : OnModuleInit(ok)
  \/ Tick
  \/ CreateDefaultRow
  \/ \E r \in Upcoming(scenario, delivered) : TelemetryOverlaps(r)
  \/ \E ok \in BOOLEAN : LoadSettles(ok)
  \/ \E ok \in BOOLEAN : InsertSettles(ok)

SpecOverlap == InitOverlap /\ [][NextOverlap]_vars

--------------------------------------------------------------------------
(* The engine beside the thresholds API.  ThresholdsService.updateThresholds *)
(* creates the default row when the table holds none and then updates it;    *)
(* the three queries are taken as one step.  It does not touch the engine.   *)

UpdateScenarios == { "tempLow", "empty" }

InitUpdate == Init /\ scenario \in UpdateScenarios

UpdateThresholds ==
  /\ thresholdsRow # Some(UpdatedThresholds)
  /\ thresholdsRow' = Some(UpdatedThresholds)
  /\ did' = << >>
  /\ UNCHANGED << alertStates, thresholds, lastWeight, lastWeightTime,
                  eventLogs, emitted, booted, now, scenario, delivered, inv,
                  connection, dbFailures, obs >>
  /\ UNCHANGED << gateway, svc >>

NextUpdate ==
  \/ \E ok \in BOOLEAN : OnModuleInit(ok)
  \/ Tick
  \/ CreateDefaultRow
  \/ UpdateThresholds
  \/ \E r \in Upcoming(scenario, delivered) : TelemetryInserted(r)
  \/ \E ok \in BOOLEAN : LoadSettles(ok)
  \/ \E ok \in BOOLEAN : InsertSettles(ok)

SpecUpdate == InitUpdate /\ [][NextUpdate]_vars

--------------------------------------------------------------------------
(* The engine on a feed without end.  Readings of the CO2 drift keep        *)
(* arriving and are handled one at a time, and the clock keeps advancing.   *)
(* The model keeps no history here (the log, the events and the observer    *)
(* stay as they are, the readings are counted round and round from 1 to     *)
(* MaxReadings), and once the clock has reached                             *)
(* EndOfClock a tick moves every time the engine holds one step into the    *)
(* past instead of moving now forward: the engine only compares              *)
(* differences of times.  A time that would fall before 0 is held at 0: it   *)
(* is then at least EndOfClock, that is a whole debounce window, before now. *)

LiveScenarios == { "co2" }

InitLive == Init /\ scenario \in LiveScenarios

EndOfClock == MaxTicks * ClockStepMs

StepBack(t) == IF t > ClockStepMs THEN t - ClockStepMs ELSE 0

Earlier(stamp) == IF stamp = None THEN None ELSE Some(StepBack(Get(stamp)))

LiveTick ==
  /\ booted
  /\ IF now < EndOfClock
     THEN /\ now' = now + ClockStepMs
          /\ UNCHANGED << alertStates, lastWeightTime, inv >>
     ELSE /\ now' = now
          /\ alertStates' =
               [ k \in AlertType |->
                   [ alertStates[k] EXCEPT
                       !.lastTriggeredAt = Earlier(@),
                       !.lastClearedAt = Earlier(@) ] ]
          /\ lastWeightTime' = Earlier(lastWeightTime)
          /\ inv' = [ j \in DOMAIN inv |->
                        [ inv[j] EXCEPT !.data.recordedAt = StepBack(@) ] ]
  /\ did' = << >>
  /\ UNCHANGED << thresholds, lastWeight, thresholdsRow, eventLogs, emitted,
                  booted, scenario, delivered, connection, dbFailures, obs >>
  /\ UNCHANGED << gateway, svc >>

(* handleTelemetryInsert with the thresholds cached and no other invocation *)
(* in flight                                                                *)
LiveTelemetry(r) ==
  /\ booted
  /\ thresholds # None
  /\ DOMAIN inv = {}
  /\ delivered' = (delivered % MaxReadings) + 1
  /\ RunChecksWith(FALSE, 1, Delivered(r, now), Get(thresholds), Checks,
                   FirstStage, NoAwait, FALSE, alertStates, connection, << >>)
  /\ UNCHANGED << thresholds, thresholdsRow, booted, now, scenario, dbFailures >>
  /\ UNCHANGED << gateway, svc >>

NextLive ==
  \/ OnModuleInit(TRUE)
  \/ LiveTick
  \/ \E r \in Scenarios[scenario].feed : LiveTelemetry(r)
  \/ \E ok \in BOOLEAN : InsertSettlesWith(FALSE, ok)

(* the module is initialised, the clock advances, readings keep arriving    *)
(* and the database answers every query                                     *)
SpecLive ==
  /\ InitLive
  /\ [][NextLive]_vars
  /\ WF_vars(OnModuleInit(TRUE))
  /\ WF_vars(LiveTick)
  /\ WF_vars(\E r \in Scenarios[scenario].feed : LiveTelemetry(r))
  /\ WF_vars(\E ok \in BOOLEAN : InsertSettlesWith(FALSE, ok))

--------------------------------------------------------------------------
(* The telemetry gateway.  It keeps the last record it broadcast and, on    *)
(* every 'telemetry.created', broadcasts the fields that differ from it.    *)

(* the variables of the engine and of the thresholds service *)
besideGateway ==
  << alertStates, thresholds, lastWeight, lastWeightTime, thresholdsRow,
     eventLogs, emitted, booted, now, scenario, delivered, inv, connection,
     dbFailures, svc, obs >>

(* a Date object: which object it is, and the time it holds *)
Date(ref, ms) == [ ref |-> ref, ms |-> ms ]

(* the fields handleTelemetryCreated compares, in its order *)
DeltaFields ==
  << "temperature", "humidity", "weightKg", "soundDb", "co2Ppm",
     "dailyHoneyGainG", "swarmRisk", "batteryPercent", "recordedAt" >>

(* telemetryData.id ? String(telemetryData.id) : '' *)
IdString(id) == IF id = 0 THEN "" ELSE ToString(id)

(* fullTelemetry: the record in payload format; a recordedAt that is a Date *)
(* is passed on as the object it is                                         *)
FullTelemetry(telemetryData) ==
  [ id |-> IdString(telemetryData.id),
    hiveId |-> telemetryData.hiveId,
    recordedAt |-> telemetryData.recordedAt,
    temperature |-> telemetryData.temperature,
    humidity |-> telemetryData.humidity,
    weightKg |-> telemetryData.weightKg,
    soundDb |-> telemetryData.soundDb,
    co2Ppm |-> telemetryData.co2Ppm,
    dailyHoneyGainG |-> telemetryData.dailyHoneyGainG,
    swarmRisk |-> telemetryData.swarmRisk,
    batteryPercent |-> telemetryData.batteryPercent ]

(* currentValue !== lastValue: numbers and null differ by value, two Date   *)
(* objects differ unless they are the same object                           *)
StrictlyDiffer(field, current, last) ==
  IF field = "recordedAt" THEN current.ref # last.ref ELSE current # last

(* The records 'telemetry.created' carries: the simulator emits the row it  *)
(* has just selected, and the driver builds a new Date for every row it     *)
(* returns, so recordedAt is never the object the gateway has cached.       *)
CreatedRecords ==
  { [ id |-> i, hiveId |-> HIVE_ID,
      recordedAt |->
        Date(IF gateway.lastTelemetry = None THEN 0
             ELSE 1 - Get(gateway.lastTelemetry).recordedAt.ref, ms),
      temperature |-> t, humidity |-> Nominal.humidity,
      weightKg |-> Nominal.weightKg, soundDb |-> Nominal.soundDb,
      co2Ppm |-> c, dailyHoneyGainG |-> g, swarmRisk |-> Nominal.swarmRisk,
      batteryPercent |-> Nominal.batteryPercent ] :
    i \in { 1, 2 }, ms \in { 0, 180000 }, t \in { 330, 361 },
    c \in { 600, 1001 }, g \in { None, Some(100) } }

Clients == { "c1", "c2" }

(* handleTelemetryCreated(telemetryData) *)
HandleTelemetryCreated(telemetryData) ==
  LET fullTelemetry == FullTelemetry(telemetryData)
      first == gateway.lastTelemetry = None
      changed ==
        IF first THEN DOMAIN fullTelemetry
        ELSE { DeltaFields[n] : n \in
                 { m \in DOMAIN DeltaFields :
                     StrictlyDiffer(DeltaFields[m],
                                    fullTelemetry[DeltaFields[m]],
                                    Get(gateway.lastTelemetry)[DeltaFields[m]]) } }
      hasChanges == first \/ changed # {}
      payload == [ type |-> "telemetry",
                   data |-> [ f \in changed |-> fullTelemetry[f] ],
                   full |-> IF first THEN Some(fullTelemetry) ELSE None ]
  IN /\ gateway' = IF hasChanges
                    THEN [ gateway EXCEPT !.lastTelemetry = Some(fullTelemetry) ]
                    ELSE gateway
     /\ did' = << [ op |-> "created", record |-> fullTelemetry ] >>
               \o ( IF hasChanges
                    THEN << [ op |-> "broadcast", payload |-> payload ] >>
                    ELSE << >> )
     /\ UNCHANGED besideGateway

(* handleConnection(client) *)
HandleConnection(client) ==
  /\ client \notin gateway.connectedClients
  /\ gateway' = [ gateway EXCEPT !.connectedClients = @ \cup { client } ]
  /\ did' = IF gateway.lastTelemetry # None
            THEN << [ op |-> "send", client |-> client,
                      payload |-> [ type |-> "telemetry",
                                    data |-> [ f \in {} |-> None ],
                                    full |-> gateway.lastTelemetry ] ] >>
            ELSE << >>
  /\ UNCHANGED besideGateway

(* handleDisconnect(client) *)
HandleDisconnect(client) ==
  /\ client \in gateway.connectedClients
  /\ gateway' = [ gateway EXCEPT !.connectedClients = @ \ { client } ]
  /\ did' = << >>
  /\ UNCHANGED besideGateway

InitGateway == Init /\ scenario = "empty"

NextGateway ==
  \/ \E telemetryData \in CreatedRecords : HandleTelemetryCreated(telemetryData)
  \/ \E client \in Clients : HandleConnection(client)
  \/ \E client \in Clients : HandleDisconnect(client)

SpecGateway == InitGateway /\ [][NextGateway]_vars

--------------------------------------------------------------------------
(* The thresholds service under concurrent calls.  Every query of a call is *)
(* sent on the one connection and the call goes on when it is answered;     *)
(* calls are not serialized, so their queries interleave.                    *)

besideService ==
  << alertStates, thresholds, lastWeight, lastWeightTime, eventLogs, emitted,
     booted, now, scenario, delivered, inv, dbFailures, gateway, obs >>

ServiceScenarios == { "empty", "tempLow" }

(* the bodies PUT /thresholds sends; absent fields are left out *)
UpdateDtos ==
  { [ tempMin |-> -100 ],
    [ co2Max |-> 900 ],
    [ tempMin |-> 250, tempMax |-> 400 ] }

(* a call of the service: the method, its argument, the part of          *)
(* updateThresholds it is in (ensure, update, reread), the query it waits *)
(* for, and what it returned                                              *)
ServiceCall(fn, updateData) ==
  [ fn |-> fn, updateData |-> updateData,
    part |-> IF fn = "updateThresholds" THEN "ensure" ELSE "get",
    pc |-> "select", result |-> None ]

ServiceQuery(q, c) == [ q |-> q, inv |-> 0, call |-> c ]

(* .set(updateData): the columns named are written, the others kept *)
SetColumns(row, updateData) ==
  [ f \in DOMAIN row |->
      IF f \in DOMAIN updateData THEN updateData[f] ELSE row[f] ]

(* getThresholds(hiveId) is called: its select is sent *)
GetThresholdsCalled ==
  /\ Len(svc) < MaxCalls
  /\ svc' = Append(svc, ServiceCall("getThresholds", None))
  /\ connection' = Append(connection, ServiceQuery("thresholds.select", Len(svc) + 1))
  /\ did' = << >>
  /\ UNCHANGED thresholdsRow
  /\ UNCHANGED besideService

(* updateThresholds(hiveId, updateData) is called: it awaits getThresholds *)
UpdateThresholdsCalled(updateData) ==
  /\ Len(svc) < MaxCalls
  /\ svc' = Append(svc, ServiceCall("updateThresholds", Some(updateData)))
  /\ connection' = Append(connection, ServiceQuery("thresholds.select", Len(svc) + 1))
  /\ did' = << >>
  /\ UNCHANGED thresholdsRow
  /\ UNCHANGED besideService

(* getThresholds, run by call c, returns row: the call returns it, or, in  *)
(* the first part of updateThresholds, goes on to send the update          *)
GetThresholdsReturns(c, row, rest) ==
  IF svc[c].part = "ensure"
  THEN /\ svc' = [ svc EXCEPT ![c].part = "update", ![c].pc = "update" ]
       /\ connection' = Append(rest, ServiceQuery("thresholds.update", c))
       /\ did' = << >>
  ELSE /\ svc' = [ svc EXCEPT ![c].pc = "returned", ![c].result = Some(row) ]
       /\ connection' = rest
       /\ did' = << [ op |-> "returned", call |-> c, fn |-> svc[c].fn,
                      result |-> row ] >>

(* the database answers the query at the head of the connection.  hiveId *)
(* is the primary key of thresholds: an insert for a hive that has a row  *)
(* fails, and the call that sent it rejects.                              *)
ServiceQuerySettles ==
  /\ connection # << >>
  /\ LET query == Dequeue(connection).query
         rest == Dequeue(connection).rest
         c == query.call
     IN /\ query.q \in { "thresholds.select", "thresholds.insert",
                         "thresholds.update" }
        /\ CASE query.q = "thresholds.select" ->
                  IF thresholdsRow # None
                  THEN /\ GetThresholdsReturns(c, Get(thresholdsRow), rest)
                       /\ UNCHANGED thresholdsRow
                  ELSE /\ svc' = [ svc EXCEPT ![c].pc = "insert" ]
                       /\ connection' =
                            Append(rest, ServiceQuery("thresholds.insert", c))
                       /\ did' = << >>
                       /\ UNCHANGED thresholdsRow
             [] query.q = "thresholds.insert" ->
                  IF thresholdsRow = None
                  THEN /\ thresholdsRow' = Some(DEFAULT_THRESHOLDS)
                       /\ GetThresholdsReturns(c, DEFAULT_THRESHOLDS, rest)
                  ELSE /\ svc' = [ svc EXCEPT ![c].pc = "threw" ]
                       /\ connection' = rest
                       /\ did' = << [ op |-> "threw", call |-> c,
                                      fn |-> svc[c].fn,
                                      error |-> "ER_DUP_ENTRY" ] >>
                       /\ UNCHANGED thresholdsRow
             [] query.q = "thresholds.update" ->
                  /\ thresholdsRow' =
                       IF thresholdsRow = None THEN None
                       ELSE Some(SetColumns(Get(thresholdsRow),
                                            Get(svc[c].updateData)))
                  /\ svc' = [ svc EXCEPT ![c].part = "reread",
                                         ![c].pc = "select" ]
                  /\ connection' =
                       Append(rest, ServiceQuery("thresholds.select", c))
                  /\ did' = << [ op |-> "updated", call |-> c,
                                 updateData |-> Get(svc[c].updateData) ] >>
  /\ UNCHANGED besideService

InitService == Init /\ scenario \in ServiceScenarios

NextService ==
  \/ GetThresholdsCalled
  \/ \E updateData \in UpdateDtos : UpdateThresholdsCalled(updateData)
  \/ ServiceQuerySettles

SpecService == InitService /\ [][NextService]_vars

--------------------------------------------------------------------------
(* Properties.  The formulas below read the steps of the engine from did:   *)
(* the kinds the last step evaluated with the value of each, the calls it    *)
(* made, the flips, the rows stored and the events emitted.                  *)

BadAboveKinds == { "TEMP_HIGH", "HUMIDITY_HIGH", "CO2_HIGH", "SWARM_RISK" }
BadBelowKinds == { "TEMP_LOW", "HUMIDITY_LOW", "BATTERY_LOW", "HONEY_GAIN_LOW" }

(* the trigger threshold T of a simple kind in a threshold row *)
TriggerLine(k, th) ==
  CASE k = "TEMP_HIGH"      -> th.tempMax
    [] k = "TEMP_LOW"       -> th.tempMin
    [] k = "HUMIDITY_HIGH"  -> th.humidityMax
    [] k = "HUMIDITY_LOW"   -> th.humidityMin
    [] k = "CO2_HIGH"       -> th.co2Max
    [] k = "SWARM_RISK"     -> th.swarmRiskMax
    [] k = "BATTERY_LOW"    -> th.batteryMin
    [] k = "HONEY_GAIN_LOW" -> th.minDailyHoneyGainG

(* the column of a reading a simple kind is about, as an optional value *)
Sensor(k, data) ==
  CASE k \in { "TEMP_HIGH", "TEMP_LOW" }         -> Some(data.temperature)
    [] k \in { "HUMIDITY_HIGH", "HUMIDITY_LOW" } -> Some(data.humidity)
    [] k = "CO2_HIGH"                            -> Some(data.co2Ppm)
    [] k = "SWARM_RISK"                          -> Some(data.swarmRisk)
    [] k = "BATTERY_LOW"                         -> Some(data.batteryPercent)
    [] k = "HONEY_GAIN_LOW"                      -> data.dailyHoneyGainG

(* the values of kind k a sequence of steps evaluated (absent ones left out) *)
CheckedValues(d, k) ==
  { Get(Sensor(k, d[n].data)) :
      n \in { m \in DOMAIN d : /\ d[m].op = "check"
                                /\ k \in d[m].kinds
                                /\ IsSome(Sensor(k, d[m].data)) } }

Rose(k) == ~alertStates[k].isActive /\ alertStates'[k].isActive
Fell(k) == alertStates[k].isActive /\ ~alertStates'[k].isActive

(* the check entries of a sequence of steps *)
ChecksIn(d) == { n \in DOMAIN d : d[n].op = "check" }

(* C1: a bad-above kind (TEMP_HIGH, HUMIDITY_HIGH, CO2_HIGH, SWARM_RISK)    *)
(* with threshold T becomes active only in a step that evaluated a value     *)
(* > T for it while it was inactive, becomes inactive only in a step that    *)
(* evaluated a value < T * 0.95 for it while it was active, and a step that  *)
(* evaluated a value v with T * 0.95 <= v <= T leaves its AlertState as it   *)
(* was, active or not.                                                       *)
C1_BadAboveHysteresis ==
  [][ /\ \A k \in BadAboveKinds :
           /\ Rose(k) => \E v \in CheckedValues(did', k) :
                            v > TriggerLine(k, Get(thresholds'))
           /\ Fell(k) => \E v \in CheckedValues(did', k) :
                            v * 100 < TriggerLine(k, Get(thresholds')) * 95
      /\ \A n \in ChecksIn(did') : \A k \in did'[n].kinds \cap BadAboveKinds :
           LET T == TriggerLine(k, Get(thresholds'))
               v == Get(Sensor(k, did'[n].data))
           IN (T * 95 <= v * 100 /\ v <= T) => alertStates'[k] = alertStates[k]
    ]_vars

(* an active bad-above kind has just been evaluated on a value of the band  *)
(* [T * 0.95, T]                                                             *)
C1_Witness ==
  \E k \in BadAboveKinds : \E v \in CheckedValues(did, k) :
       /\ alertStates[k].isActive
       /\ TriggerLine(k, Get(thresholds)) * 95 <= v * 100
       /\ v <= TriggerLine(k, Get(thresholds))

(* C2: a bad-below kind (TEMP_LOW, HUMIDITY_LOW, BATTERY_LOW, and            *)
(* HONEY_GAIN_LOW on a present gain) with threshold T becomes active only in *)
(* a step that evaluated a value < T for it while it was inactive, becomes   *)
(* inactive only in a step that evaluated a value > T * 1.05 for it while it *)
(* was active, and a step that evaluated a value v with T <= v <= T * 1.05   *)
(* leaves its AlertState as it was.                                          *)
C2_BadBelowHysteresis ==
  [][ /\ \A k \in BadBelowKinds :
           /\ Rose(k) => \E v \in CheckedValues(did', k) :
                            v < TriggerLine(k, Get(thresholds'))
           /\ Fell(k) => \E v \in CheckedValues(did', k) :
                            v * 100 > TriggerLine(k, Get(thresholds')) * 105
      /\ \A n \in ChecksIn(did') : \A k \in did'[n].kinds \cap BadBelowKinds :
           IsSome(Sensor(k, did'[n].data)) =>
             LET T == TriggerLine(k, Get(thresholds'))
                 v == Get(Sensor(k, did'[n].data))
             IN (T <= v /\ v * 100 <= T * 105) => alertStates'[k] = alertStates[k]
    ]_vars

(* an active bad-below kind has just been evaluated on a value of the band  *)
(* [T, T * 1.05]                                                             *)
C2_Witness ==
  \E k \in BadBelowKinds : \E v \in CheckedValues(did, k) :
    /\ alertStates[k].isActive
    /\ TriggerLine(k, Get(thresholds)) <= v
    /\ v * 100 <= TriggerLine(k, Get(thresholds)) * 105

(* C3: for every kind, whatever row the table holds, no reading satisfies   *)
(* both the trigger comparison and the clear comparison of the kind: the     *)
(* check of a reading in flight never decides triggerAlert on the inactive   *)
(* kind and clearAlert on the active kind.                                   *)
C3_ClearInsideTrigger ==
  thresholds # None =>
    \A i \in DOMAIN inv : \A k \in AlertType :
      ~ ( /\ Decide(k, inv[i].data, Get(thresholds), FALSE, lastWeight,
                    lastWeightTime).fn = "triggerAlert"
          /\ Decide(k, inv[i].data, Get(thresholds), TRUE, lastWeight,
                    lastWeightTime).fn = "clearAlert" )

(* the entries of op ("call", "flip", "insert", "insertError", "emit") for   *)
(* kind k in a sequence of steps                                             *)
EventsFor(d, op, k) == { n \in DOMAIN d : d[n].op = op /\ d[n].type = k }

Called(d, k, fn) == \E n \in EventsFor(d, "call", k) : d[n].fn = fn

(* the insert queries for kind k that wait on a connection *)
PendingFor(q, k) ==
  { n \in DOMAIN q : q[n].q = "insert" /\ Get(q[n].call).type = k }

(* the audit rows stored and the events emitted for kind k, ever *)
RowsFor(k) ==
  { n \in DOMAIN eventLogs : eventLogs[n].type \in { k, k \o "_CLEARED" } }

EmittedFor(k) == { n \in DOMAIN emitted : emitted[n].type = k }

(* the step wrote nothing of kind k: its AlertState, its audit rows, its     *)
(* events and the inserts that wait for it are as before                     *)
NothingDone(k) ==
  /\ alertStates'[k] = alertStates[k]
  /\ EventsFor(did', "flip", k) = {}
  /\ EventsFor(did', "insert", k) = {}
  /\ EventsFor(did', "emit", k) = {}
  /\ Cardinality(PendingFor(connection', k)) <= Cardinality(PendingFor(connection, k))
  /\ Cardinality(RowsFor(k)') = Cardinality(RowsFor(k))
  /\ Cardinality(EmittedFor(k)') = Cardinality(EmittedFor(k))

Within(stamp, t) == IsSome(stamp) /\ t - Get(stamp) < 300000

(* C4: a step that calls triggerAlert for a kind whose lastTriggeredAt is    *)
(* set and less than 300000 ms old changes nothing of the kind: isActive,    *)
(* lastTriggeredAt, lastClearedAt and lastValue stay, no audit insert is     *)
(* issued, no row is stored and no event is emitted.                         *)
C4_TriggerDebounce ==
  [][ \A n \in DOMAIN did' :
        (did'[n].op = "call" /\ did'[n].fn = "triggerAlert") =>
          \A k \in AlertType :
            (k = did'[n].type /\ Within(alertStates[k].lastTriggeredAt, now'))
              => NothingDone(k)
    ]_vars

(* triggerAlert has just been called for a kind inside its window and the    *)
(* kind is still inactive                                                    *)
C4_Witness ==
  \E k \in AlertType :
    /\ Called(did, k, "triggerAlert")
    /\ EventsFor(did, "flip", k) = {}
    /\ ~alertStates[k].isActive
    /\ Within(alertStates[k].lastTriggeredAt, now)
    /\ IsSome(alertStates[k].lastValue)

(* C5: a step that calls clearAlert for an active kind whose lastClearedAt,  *)
(* as it was before the step, is set and less than 300000 ms old changes     *)
(* nothing of the kind: it stays active, its four fields stay, no audit      *)
(* insert is issued, no row is stored and no event is emitted.               *)
C5_ClearDebounce ==
  [][ \A n \in DOMAIN did' :
        (did'[n].op = "call" /\ did'[n].fn = "clearAlert") =>
          \A k \in AlertType :
            ( /\ k = did'[n].type
              /\ alertStates[k].isActive
              /\ Within(alertStates[k].lastClearedAt, now') )
            => ( NothingDone(k) /\ alertStates'[k].isActive )
    ]_vars

(* clearAlert has just been called for an active kind inside its window, at  *)
(* a later time than the last clear, and the kind is still active            *)
C5_Witness ==
  \E k \in AlertType :
    /\ Called(did, k, "clearAlert")
    /\ EventsFor(did, "flip", k) = {}
    /\ alertStates[k].isActive
    /\ Within(alertStates[k].lastClearedAt, now)
    /\ now > Get(alertStates[k].lastClearedAt)

(* flips a and b of a kind, as observed, are a window apart *)
Apart(rec, a, b) == rec[b].at - rec[a].at >= 300000

(* any two observed flips of the same direction are a window apart *)
SameDirectionApart(k) ==
  \A a, b \in DOMAIN obs[k].recent :
    (a < b /\ obs[k].recent[a].dir = obs[k].recent[b].dir)
      => Apart(obs[k].recent, a, b)

(* triggerAlert was called for k, every call of it so far fell into one      *)
(* window, and no insert of the kind waits for its answer                    *)
OneWindow(k) ==
  /\ IsSome(obs[k].firstTrigger)
  /\ Get(obs[k].lastTrigger) - Get(obs[k].firstTrigger) < 300000
  /\ PendingFor(connection, k) = {}

TriggeredRows(k) == { n \in DOMAIN eventLogs : eventLogs[n].type = k }

(* C6, as claimed: two TRIGGERED flips of a kind and two CLEARED flips of a  *)
(* kind are at least 300000 ms apart, and the triggering readings of one     *)
(* window produce exactly one TRIGGERED flip and exactly one audit row of    *)
(* the kind's type.                                                          *)
C6_ExactlyOnePerWindow ==
  \A k \in AlertType :
    /\ SameDirectionApart(k)
    /\ OneWindow(k) => /\ obs[k].nTriggered = 1
                       /\ Cardinality(TriggeredRows(k)) = 1

(* C6, amended: two TRIGGERED flips of a kind and two CLEARED flips of a     *)
(* kind are at least 300000 ms apart; there are never more audit rows of the *)
(* kind's type than TRIGGERED flips, and the triggering readings of one      *)
(* window produce at most one TRIGGERED flip and at most one such row.       *)
C6_AtMostOnePerWindow ==
  \A k \in AlertType :
    /\ SameDirectionApart(k)
    /\ Cardinality(TriggeredRows(k)) <= obs[k].nTriggered
    /\ OneWindow(k) => /\ obs[k].nTriggered <= 1
                       /\ Cardinality(TriggeredRows(k)) <= 1

(* triggerAlert was called for a kind at two different times of one window,  *)
(* it flipped once, and the one row is stored                                *)
C6_Witness ==
  \E k \in AlertType :
    /\ OneWindow(k)
    /\ Get(obs[k].lastTrigger) > Get(obs[k].firstTrigger)
    /\ obs[k].nTriggered = 1
    /\ Cardinality(TriggeredRows(k)) = 1

(* C7: two consecutive flips of a kind, whatever their directions, are at    *)
(* least 300000 ms apart.                                                    *)
C7_ConsecutiveFlipsApart ==
  \A k \in AlertType : \A a \in DOMAIN obs[k].recent :
    a + 1 \in DOMAIN obs[k].recent => Apart(obs[k].recent, a, a + 1)

(* the sink events of a step: rows stored, inserts failed, events emitted *)
IsSinkEvent(e) == e.op \in { "insert", "insertError", "emit" }

Stamp(state, fn) ==
  IF fn = "triggerAlert" THEN state.lastTriggeredAt ELSE state.lastClearedAt

(* C8: a transition is flipped in memory, then written, then published: an   *)
(* insert waits or is answered only for a kind whose flip has set its time,  *)
(* an event is emitted only right after the row of the same transition has   *)
(* been stored, and so never more events have been emitted than rows stored. *)
C8_FlipWritePublish ==
  /\ \A n \in DOMAIN connection :
       connection[n].q = "insert" =>
         IsSome(Stamp(alertStates[Get(connection[n].call).type],
                      Get(connection[n].call).fn))
  /\ \A n \in DOMAIN did :
       /\ IsSinkEvent(did[n]) => IsSome(Stamp(alertStates[did[n].type], did[n].fn))
       /\ did[n].op = "emit" =>
            /\ n > 1
            /\ did[n - 1].op = "insert"
            /\ did[n - 1].inv = did[n].inv
            /\ did[n - 1].type = did[n].type
            /\ did[n - 1].fn = did[n].fn
       /\ did[n].op = "flip" => \A m \in DOMAIN did :
            (IsSinkEvent(did[m]) /\ did[m].inv = did[n].inv) => m < n
  /\ Len(emitted) <= Len(eventLogs)

(* an event has just been emitted after its row was stored *)
C8_Witness ==
  /\ \E n \in DOMAIN did : did[n].op = "emit"
  /\ Len(emitted) = Len(eventLogs)
  /\ Len(emitted) > 0

(* C9: when the audit insert of a transition fails, the event of that        *)
(* transition is emitted all the same.                                       *)
C9_PublishAfterFailedWrite ==
  \A n \in DOMAIN did :
    did[n].op = "insertError" =>
      \E m \in DOMAIN did : /\ did[m].op = "emit"
                            /\ did[m].inv = did[n].inv
                            /\ did[m].type = did[n].type
                            /\ did[m].fn = did[n].fn

Settled(d, op, i) == \E n \in DOMAIN d : d[n].op = op /\ d[n].inv = i

(* C10: the step in which the audit insert of a transition fails leaves the  *)
(* AlertState of the kind as the flip and the steps since wrote it (the time *)
(* of the flip stays set), and the promise of handleTelemetryInsert is not   *)
(* rejected: the invocation goes on with its checks or is fulfilled.         *)
C10_FailedWriteIsSwallowed ==
  [][ \A n \in DOMAIN did' :
        did'[n].op = "insertError" =>
          /\ alertStates'[did'[n].type] = alertStates[did'[n].type]
          /\ IsSome(Stamp(alertStates'[did'[n].type], did'[n].fn))
          /\ ~Settled(did', "rejected", did'[n].inv)
          /\ \/ Settled(did', "fulfilled", did'[n].inv)
             \/ /\ did'[n].inv \in DOMAIN inv'
                /\ ~inv'[did'[n].inv].rejected
    ]_vars

(* an insert for a trigger has just failed, the kind is active with the      *)
(* value of the reading, and the invocation is fulfilled                     *)
C10_Witness ==
  \E n \in DOMAIN did :
    /\ did[n].op = "insertError"
    /\ did[n].fn = "triggerAlert"
    /\ alertStates[did[n].type].isActive
    /\ alertStates[did[n].type].lastValue = did[n].value
    /\ Settled(did, "fulfilled", did[n].inv)


(* the kinds a check evaluates after kind k *)
LaterStages(k) ==
  UNION { { Stages(c)[j2] : j2 \in { j \in DOMAIN Stages(c) : j > j1 } } :
            <<c, j1>> \in { <<c, j>> \in Checks \X (1..2) :
                              j \in DOMAIN Stages(c) /\ Stages(c)[j] = k } }

(* C11: the step in which the audit insert of one kind fails leaves every    *)
(* other kind to its own course: the inserts that wait for other kinds stay  *)
(* queued, the AlertState of a kind the step did not call for stays, and the *)
(* check of the failed kind goes on to its next kind, which is called for,   *)
(* flips and queues its insert when its condition holds outside its window;  *)
(* and whatever failed before, an insert that is answered stores the row and *)
(* emits the event of its kind.                                              *)
C11_FailureIsolatedPerKind ==
  [][ \A n \in DOMAIN did' :
        /\ did'[n].op = "insertError" =>
             LET i == Head(connection).inv
                 failed == Get(Head(connection).call).type
             IN \A k \in AlertType \ { failed } :
                  /\ Cardinality(PendingFor(connection', k))
                       >= Cardinality(PendingFor(connection, k))
                  /\ EventsFor(did', "call", k) = {}
                       => alertStates'[k] = alertStates[k]
                  /\ k \in LaterStages(failed) =>
                       LET fn == Decide(k, inv[i].data, Get(thresholds),
                                        alertStates[k].isActive, lastWeight,
                                        lastWeightTime).fn
                       IN /\ fn # "none" => Called(did', k, fn)
                          /\ ( /\ fn = "triggerAlert"
                               /\ ~Within(alertStates[k].lastTriggeredAt, now) )
                             => /\ Rose(k)
                                /\ Cardinality(PendingFor(connection', k))
                                     = Cardinality(PendingFor(connection, k)) + 1
        /\ did'[n].op = "insert" =>
             \A k \in AlertType :
               k = did'[n].type =>
                 /\ Cardinality(RowsFor(k)') = Cardinality(RowsFor(k)) + 1
                 /\ Cardinality(EmittedFor(k)') = Cardinality(EmittedFor(k)) + 1
    ]_vars

(* the insert of one kind has just failed and, in the same step, the check   *)
(* went on to flip another kind, whose insert now waits                      *)
C11_Witness ==
  \E n, m \in DOMAIN did :
    /\ did[n].op = "insertError"
    /\ did[m].op = "flip"
    /\ did[m].inv = did[n].inv
    /\ did[m].type # did[n].type
    /\ PendingFor(connection, did[m].type) # {}


(* the flips of kind k so far, in both directions *)
FlipsFor(k) == obs[k].nTriggered + obs[k].nCleared

SelectAnswered ==
  /\ connection # << >>
  /\ Head(connection).q = "select"
  /\ delivered' = delivered
  /\ connection' # connection

(* C13: a reading that arrives while no thresholds are cached queues exactly *)
(* one select and touches nothing else; when that select finds no row or     *)
(* fails while the cache is still empty, the cache stays empty, no           *)
(* AlertState, tracker, audit row or event changes, no query is issued, and  *)
(* the invocation is fulfilled, not rejected.  The next reading finds the    *)
(* cache empty and queues its select in the same way.                        *)
C13_NoConfigIsNoOp ==
  [][ /\ ( delivered' = delivered + 1 /\ thresholds = None ) =>
           /\ connection' = Append(connection, Query("select", delivered', None))
           /\ did' = << >>
           /\ alertStates' = alertStates
           /\ eventLogs' = eventLogs
           /\ emitted' = emitted
      /\ ( /\ SelectAnswered
           /\ thresholds = None
           /\ thresholdsRow = None \/ dbFailures' > dbFailures ) =>
           /\ thresholds' = None
           /\ alertStates' = alertStates
           /\ lastWeight' = lastWeight
           /\ lastWeightTime' = lastWeightTime
           /\ eventLogs' = eventLogs
           /\ emitted' = emitted
           /\ connection' = Tail(connection)
           /\ did' = << Ev("fulfilled", Head(connection).inv, "", "", None, "") >>
           /\ Head(connection).inv \notin DOMAIN inv'
    ]_vars

(* the second reading waits for its own select after the first one found no  *)
(* thresholds and changed nothing                                            *)
C13_Witness ==
  /\ thresholds = None
  /\ delivered = 2
  /\ \E n \in DOMAIN connection : connection[n] = Query("select", 2, None)
  /\ 1 \notin DOMAIN inv
  /\ alertStates = [ k \in AlertType |-> InitialAlertState ]
  /\ eventLogs = << >>


(* the tracker holds the weight and the time of reading data *)
Tracks(w, wt, data) == w = Some(data.weightKg) /\ wt = Some(data.recordedAt)

(* C14, as claimed: in the step that settles the promise of an invocation    *)
(* the tracker holds, after it, the weight and the timestamp of the reading  *)
(* of that invocation.                                                       *)
C14_TrackerAfterEveryCall ==
  [][ \A i \in 1..delivered' :
        Settled(did', "fulfilled", i) =>
          /\ i \in DOMAIN inv => Tracks(lastWeight', lastWeightTime', inv[i].data)
          /\ \A m \in ChecksIn(did') :
               did'[m].inv = i => Tracks(lastWeight', lastWeightTime', did'[m].data)
    ]_vars

(* C14, amended: the step in which checkWeightAlerts of an invocation runs   *)
(* to its end, be it the step that evaluated WEIGHT_DROP without awaiting an *)
(* insert (nothing called, or the call debounced) or the step that answers   *)
(* the insert of its transition, leaves the weight and the timestamp of that *)
(* invocation's reading in the tracker; no other step writes the tracker, in *)
(* particular not the return of an invocation that found no thresholds.      *)
C14_TrackerAfterWeightCheck ==
  [][ /\ \A m \in ChecksIn(did') :
           ( /\ "WEIGHT_DROP" \in did'[m].kinds
             /\ \A n \in PendingFor(connection', "WEIGHT_DROP") :
                  connection'[n].inv # did'[m].inv )
           => Tracks(lastWeight', lastWeightTime', did'[m].data)
      /\ \A n \in DOMAIN did' :
           ( did'[n].op \in { "insert", "insertError" }
             /\ did'[n].type = "WEIGHT_DROP" )
           => Tracks(lastWeight', lastWeightTime', inv[Head(connection).inv].data)
      /\ ( lastWeight' # lastWeight \/ lastWeightTime' # lastWeightTime ) =>
           \/ \E m \in ChecksIn(did') : "WEIGHT_DROP" \in did'[m].kinds
           \/ \E n \in DOMAIN did' : /\ did'[n].op \in { "insert", "insertError" }
                                     /\ did'[n].type = "WEIGHT_DROP"
    ]_vars

(* WEIGHT_DROP is active, the last step evaluated it on a reading without    *)
(* calling triggerAlert or clearAlert, and the tracker holds that reading    *)
C14_Witness ==
  \E m \in ChecksIn(did) :
    /\ "WEIGHT_DROP" \in did[m].kinds
    /\ alertStates["WEIGHT_DROP"].isActive
    /\ EventsFor(did, "call", "WEIGHT_DROP") = {}
    /\ Tracks(lastWeight, lastWeightTime, did[m].data)
    /\ did[m].data.recordedAt > 0


(* the check entries of a sequence of steps that evaluated WEIGHT_DROP *)
WeightChecksIn(d) == { m \in ChecksIn(d) : "WEIGHT_DROP" \in d[m].kinds }

(* The reading data comes after a tracked reading, later by at most one      *)
(* hour, with a lower weight.                                                *)
DropInWindow(data, w, wt) ==
  /\ IsSome(w)
  /\ IsSome(wt)
  /\ data.recordedAt - Get(wt) > 0
  /\ data.recordedAt - Get(wt) <= 3600000
  /\ Get(w) - data.weightKg > 0

(* the time between the tracked reading and data, in seconds *)
SecondsSince(data, wt) == (data.recordedAt - Get(wt)) \div 1000

(* C15: WEIGHT_DROP changes only in a step that evaluated it on a reading    *)
(* later than the tracked one by at most an hour and lighter than it; it     *)
(* becomes active only when the drop per hour exceeds                        *)
(* maxWeightDropPerHourKg, and such a reading calls triggerAlert for the     *)
(* inactive kind, which flips outside the debounce window.  A reading with   *)
(* no tracked predecessor, one more than an hour after it, one not later     *)
(* than it and one not lighter than it leave the AlertState of WEIGHT_DROP   *)
(* as it was, with no call.                                                  *)
C15_WeightDropWindow ==
  [][ /\ ( Rose("WEIGHT_DROP") \/ Fell("WEIGHT_DROP") ) =>
           \E m \in WeightChecksIn(did') :
             /\ DropInWindow(did'[m].data, lastWeight, lastWeightTime)
             /\ Rose("WEIGHT_DROP") =>
                  (Get(lastWeight) - did'[m].data.weightKg) * 3600
                    > Get(thresholds').maxWeightDropPerHourKg
                        * SecondsSince(did'[m].data, lastWeightTime)
      /\ \A m \in WeightChecksIn(did') :
           IF DropInWindow(did'[m].data, lastWeight, lastWeightTime)
           THEN ( /\ ~alertStates["WEIGHT_DROP"].isActive
                  /\ (Get(lastWeight) - did'[m].data.weightKg) * 3600
                       > Get(thresholds').maxWeightDropPerHourKg
                           * SecondsSince(did'[m].data, lastWeightTime) )
                => /\ Called(did', "WEIGHT_DROP", "triggerAlert")
                   /\ ~Within(alertStates["WEIGHT_DROP"].lastTriggeredAt, now)
                        => Rose("WEIGHT_DROP")
           ELSE /\ alertStates'["WEIGHT_DROP"] = alertStates["WEIGHT_DROP"]
                /\ EventsFor(did', "call", "WEIGHT_DROP") = {}
    ]_vars

(* WEIGHT_DROP has just been triggered by a drop of 0.6 kg in 150 s, that    *)
(* is 14.4 kg/h, and its insert waits while the tracker still holds the      *)
(* reading before                                                            *)
C15_Witness ==
  /\ \E n \in EventsFor(did, "flip", "WEIGHT_DROP") :
       did[n].label = "TRIGGERED" /\ did[n].value = Some(1440)
  /\ alertStates["WEIGHT_DROP"].isActive
  /\ lastWeight = Some(2550)
  /\ PendingFor(connection, "WEIGHT_DROP") # {}

(* C16: WEIGHT_DROP becomes inactive only in a step that evaluated a drop    *)
(* per hour strictly below maxWeightDropPerHourKg * 0.95; a rate equal to    *)
(* that line leaves it active.                                               *)
C16_WeightClearStrictlyBelow ==
  [][ Fell("WEIGHT_DROP") =>
        \E m \in WeightChecksIn(did') :
          /\ DropInWindow(did'[m].data, lastWeight, lastWeightTime)
          /\ (Get(lastWeight) - did'[m].data.weightKg) * 3600 * 100
               < Get(thresholds').maxWeightDropPerHourKg * 95
                   * SecondsSince(did'[m].data, lastWeightTime)
    ]_vars


(* C17: a step that evaluates HONEY_GAIN_LOW on a reading without a daily    *)
(* gain calls neither triggerAlert nor clearAlert for it and changes nothing *)
(* of the kind: its AlertState stays, active or not, no insert is queued, no *)
(* row is stored and no event is emitted.                                    *)
C17_NullGainChangesNothing ==
  [][ \A m \in ChecksIn(did') :
        ( /\ "HONEY_GAIN_LOW" \in did'[m].kinds
          /\ did'[m].data.dailyHoneyGainG = None )
        => /\ NothingDone("HONEY_GAIN_LOW")
           /\ EventsFor(did', "call", "HONEY_GAIN_LOW") = {}
    ]_vars

(* an active HONEY_GAIN_LOW has just been evaluated on a reading without a   *)
(* daily gain                                                                *)
C17_Witness ==
  \E m \in ChecksIn(did) :
    /\ "HONEY_GAIN_LOW" \in did[m].kinds
    /\ did[m].data.dailyHoneyGainG = None
    /\ alertStates["HONEY_GAIN_LOW"].isActive
    /\ PendingFor(connection, "HONEY_GAIN_LOW") = {}


(* the sound levels a sequence of steps evaluated SOUND_ANOMALY on *)
SoundsIn(d) ==
  { d[m].data.soundDb :
      m \in { n \in ChecksIn(d) : "SOUND_ANOMALY" \in d[n].kinds } }

(* C18: SOUND_ANOMALY becomes active only in a step that evaluated a level   *)
(* above soundMax or below soundMin, becomes inactive only in a step that    *)
(* evaluated a level below soundMax * 0.95 and above soundMin * 1.05, and a  *)
(* step that evaluates a level beyond either bound while it is active leaves *)
(* its AlertState as it was.                                                 *)
C18_SoundOneStateTwoBounds ==
  [][ /\ Rose("SOUND_ANOMALY") =>
           \E v \in SoundsIn(did') :
             v > Get(thresholds').soundMax \/ v < Get(thresholds').soundMin
      /\ Fell("SOUND_ANOMALY") =>
           \E v \in SoundsIn(did') :
             /\ v * 100 < Get(thresholds').soundMax * 95
             /\ v * 100 > Get(thresholds').soundMin * 105
      /\ \A v \in SoundsIn(did') :
           ( /\ alertStates["SOUND_ANOMALY"].isActive
             /\ v > Get(thresholds').soundMax \/ v < Get(thresholds').soundMin )
           => alertStates'["SOUND_ANOMALY"] = alertStates["SOUND_ANOMALY"]
    ]_vars


(* C19: one invocation of handleTelemetryInsert evaluates each kind at most  *)
(* once, in one step: the kinds a step evaluates for it are at or after the  *)
(* stage each of its checks had reached and behind that stage afterwards; a  *)
(* step calls triggerAlert or clearAlert at most once per kind, for a kind   *)
(* it evaluates, and flips a kind only by such a call.  So an invocation     *)
(* makes at most one transition per kind.                                    *)
C19_OneTransitionPerKind ==
  [][ /\ \A n \in DOMAIN did' :
           did'[n].op \in { "flip", "call" } =>
             /\ \A m \in DOMAIN did' :
                  ( /\ did'[m].op = did'[n].op
                    /\ did'[m].inv = did'[n].inv
                    /\ did'[m].type = did'[n].type ) => m = n
             /\ did'[n].op = "flip" =>
                  \E m \in DOMAIN did' : /\ did'[m].op = "call"
                                         /\ did'[m].inv = did'[n].inv
                                         /\ did'[m].type = did'[n].type
             /\ did'[n].op = "call" =>
                  \E m \in ChecksIn(did') : /\ did'[m].inv = did'[n].inv
                                            /\ did'[n].type \in did'[m].kinds
      /\ \A m \in ChecksIn(did') :
           \A c \in Checks : \A j \in DOMAIN Stages(c) :
             Stages(c)[j] \in did'[m].kinds =>
               /\ ( did'[m].inv \in DOMAIN inv /\ ~inv[did'[m].inv].loading )
                    => j >= inv[did'[m].inv].pos[c]
               /\ did'[m].inv \in DOMAIN inv' => inv'[did'[m].inv].pos[c] > j
    ]_vars

(* one invocation has cleared TEMP_HIGH and, its insert answered, has just   *)
(* triggered TEMP_LOW: two transitions, one per kind                         *)
C19_Witness ==
  \E n, m \in DOMAIN did :
    /\ did[n].op = "insert"
    /\ did[n].type = "TEMP_HIGH"
    /\ did[n].fn = "clearAlert"
    /\ did[m].op = "flip"
    /\ did[m].type = "TEMP_LOW"
    /\ did[m].inv = did[n].inv
    /\ obs["TEMP_HIGH"].nCleared = 1


(* the 'alert.triggered' events emitted for kind k *)
TriggeredEvents(k) ==
  { n \in EmittedFor(k) : emitted[n].event = "alert.triggered" }

StaysSetAndForward(old, new) ==
  IsSome(old) => ( IsSome(new) /\ Get(new) >= Get(old) )

(* C21: no step unsets lastTriggeredAt or lastClearedAt of a kind, and a     *)
(* step that writes either of them writes a time not earlier than the one    *)
(* it replaces.                                                              *)
C21_StampsOnlyForward ==
  [][ \A k \in AlertType :
        /\ StaysSetAndForward(alertStates[k].lastTriggeredAt,
                              alertStates'[k].lastTriggeredAt)
        /\ StaysSetAndForward(alertStates[k].lastClearedAt,
                              alertStates'[k].lastClearedAt)
    ]_vars

(* a kind triggered at time 0 and cleared has just been triggered again a    *)
(* debounce window later: its lastTriggeredAt was replaced by a later time   *)
C21_Witness ==
  \E k \in AlertType :
    /\ obs[k].firstTrigger = Some(0)
    /\ obs[k].nTriggered = 2
    /\ alertStates[k].lastTriggeredAt = Some(300000)
    /\ IsSome(alertStates[k].lastClearedAt)
    /\ EventsFor(did, "flip", k) # {}


(* C22: the AlertState a step leaves for a kind it evaluates is the one the  *)
(* kind's own check computes from the kind's state before the step, the      *)
(* reading, the thresholds, the tracker and the clock, whatever the states   *)
(* of the other kinds are; and a step changes the AlertState of a kind only  *)
(* when it flips that kind by a call made for it.                            *)
C22_OwnStateOnly ==
  [][ /\ \A m \in ChecksIn(did') : \A k \in did'[m].kinds :
           LET d == Decide(k, did'[m].data, Get(thresholds'),
                           alertStates[k].isActive, lastWeight, lastWeightTime)
           IN alertStates'[k] =
                IF d.fn = "none" THEN alertStates[k]
                ELSE Call(alertStates[k], d.fn, d.value, now).state
      /\ \A k \in AlertType :
           alertStates'[k] # alertStates[k] =>
             \E n \in EventsFor(did', "flip", k) :
               \E m \in EventsFor(did', "call", k) :
                 did'[m].inv = did'[n].inv /\ did'[m].fn = did'[n].fn
    ]_vars

(* one reading has just flipped BATTERY_LOW while CO2_HIGH, evaluated on the *)
(* same reading and active since an earlier one, was not called for          *)
C22_Witness ==
  /\ EventsFor(did, "flip", "BATTERY_LOW") # {}
  /\ EventsFor(did, "call", "CO2_HIGH") = {}
  /\ \E m \in ChecksIn(did) : { "CO2_HIGH", "BATTERY_LOW" } \subseteq did[m].kinds
  /\ alertStates["CO2_HIGH"].isActive
  /\ alertStates["BATTERY_LOW"].isActive


(* C23: at no time are two invocations of handleTelemetryInsert in flight    *)
(* together.                                                                 *)
C23_OneInvocationInFlight ==
  \A i, j \in DOMAIN inv : i = j


(* C24: every evaluation uses the thresholds the store holds: the cache is   *)
(* loaded at start-up and when a reading finds it empty, a load that fails   *)
(* or finds no row leaves a cached row in place, and after an update of the  *)
(* row in the store the evaluations that follow read the updated row.        *)
C24_EvaluatesWithStoredThresholds ==
  [][ /\ \A m \in ChecksIn(did') : thresholds' = thresholdsRow'
      /\ thresholds # None => thresholds' # None
      /\ ( thresholds' # thresholds /\ thresholds # None ) =>
           thresholds' = thresholdsRow
    ]_vars


(* the audit rows of kind k, in the order the log holds them *)
KindRows(k) ==
  LET OfKind(row) == row.type \in { k, k \o "_CLEARED" }
  IN SelectSeq(eventLogs, OfKind)

(* no two neighbours of a sequence of rows have the same type *)
Alternates(rows) ==
  \A n \in DOMAIN rows : n + 1 \in DOMAIN rows => rows[n].type # rows[n + 1].type

(* The row stored and the event emitted by the last step are those of its    *)
(* transition: the row has the kind as its type for a trigger and the kind   *)
(* with "_CLEARED" for a clear, the event has the kind without suffix.       *)
LastStoredIsTyped ==
  \A n \in DOMAIN did :
    did[n].op = "insert" =>
      /\ eventLogs # << >>
      /\ eventLogs[Len(eventLogs)].type =
           ( IF did[n].fn = "triggerAlert" THEN did[n].type
             ELSE did[n].type \o "_CLEARED" )
      /\ emitted # << >>
      /\ emitted[Len(emitted)] =
           [ event |-> IF did[n].fn = "triggerAlert" THEN "alert.triggered"
                       ELSE "alert.cleared",
             type |-> did[n].type ]

(* C25, as claimed: rows and events are typed as above, and the rows of one  *)
(* kind in the log alternate between the kind's name and the name with       *)
(* "_CLEARED", beginning with the kind's name.                               *)
C25_LogRowsAlternate ==
  /\ LastStoredIsTyped
  /\ \A k \in AlertType :
       /\ Alternates(KindRows(k))
       /\ KindRows(k) # << >> => KindRows(k)[1].type = k

(* C25, amended: rows and events are typed as above; the inserts issued for  *)
(* one kind alternate between trigger and clear, and so do its rows in the   *)
(* log, beginning with the kind's name, as long as no insert of the kind has *)
(* failed.                                                                   *)
C25_IssuedWritesAlternate ==
  /\ LastStoredIsTyped
  /\ \A k \in AlertType :
       /\ ~obs[k].repeated
       /\ obs[k].nFailed = 0 =>
            /\ Alternates(KindRows(k))
            /\ KindRows(k) # << >> => KindRows(k)[1].type = k

(* the row of a clear has just been stored behind the row of its trigger,    *)
(* and both events carry the kind                                            *)
C25_Witness ==
  \E k \in AlertType :
    /\ \E n \in EventsFor(did, "insert", k) : did[n].fn = "clearAlert"
    /\ KindRows(k) = << [ hiveId |-> HIVE_ID, type |-> k ],
                        [ hiveId |-> HIVE_ID, type |-> k \o "_CLEARED" ] >>
    /\ Cardinality(EmittedFor(k)) = 2
    /\ obs[k].nFailed = 0


(* the direction of the last transition of kind k that went past its         *)
(* debounce test, "" when there was none                                     *)
LastDirection(k) ==
  IF obs[k].lastDone = "triggerAlert" THEN "TRIGGERED"
  ELSE IF obs[k].lastDone = "clearAlert" THEN "CLEARED"
  ELSE ""

(* C26: for every kind the transitions alternate, beginning with TRIGGERED:  *)
(* triggerAlert and clearAlert never pass the debounce test twice running    *)
(* for one kind, each passage flips isActive, the first flip is to active,   *)
(* the flips to active are as many as the flips to inactive or one more,     *)
(* and isActive is true exactly when the last transition was TRIGGERED.      *)
C26_FlipsAlternate ==
  \A k \in AlertType :
    /\ ~obs[k].repeated
    /\ \A n \in DOMAIN obs[k].recent :
         n + 1 \in DOMAIN obs[k].recent =>
           obs[k].recent[n].dir # obs[k].recent[n + 1].dir
    /\ ( obs[k].recent # << >> /\ FlipsFor(k) <= 3 ) =>
         obs[k].recent[1].dir = "TRIGGERED"
    /\ obs[k].nTriggered - obs[k].nCleared \in { 0, 1 }
    /\ IF obs[k].recent = << >> THEN LastDirection(k) = ""
       ELSE obs[k].recent[Len(obs[k].recent)].dir = LastDirection(k)
    /\ alertStates[k].isActive <=> LastDirection(k) = "TRIGGERED"

(* a kind has been triggered, cleared and triggered again, and is active *)
C26_Witness ==
  \E k \in AlertType :
    /\ Len(obs[k].recent) = 3
    /\ obs[k].recent[1].dir = "TRIGGERED"
    /\ obs[k].recent[2].dir = "CLEARED"
    /\ obs[k].recent[3].dir = "TRIGGERED"
    /\ FlipsFor(k) = 3
    /\ alertStates[k].isActive


(* C27: in every state and for every kind: an active kind has a trigger time *)
(* and no clear time later than it; an inactive kind that was ever triggered *)
(* has a clear time not earlier than its trigger time; a clear time implies  *)
(* a trigger time; lastValue is unset exactly when lastTriggeredAt is, and   *)
(* is otherwise the value of the kind's last transition that was not         *)
(* suppressed by the debounce.                                               *)
C27_AlertStateConsistent ==
  \A k \in AlertType :
    LET s == alertStates[k]
    IN /\ s.isActive =>
            /\ IsSome(s.lastTriggeredAt)
            /\ \/ s.lastClearedAt = None
               \/ Get(s.lastClearedAt) <= Get(s.lastTriggeredAt)
       /\ ( ~s.isActive /\ IsSome(s.lastTriggeredAt) ) =>
            /\ IsSome(s.lastClearedAt)
            /\ Get(s.lastClearedAt) >= Get(s.lastTriggeredAt)
       /\ IsSome(s.lastClearedAt) => IsSome(s.lastTriggeredAt)
       /\ s.lastValue = None <=> s.lastTriggeredAt = None
       /\ IsSome(s.lastTriggeredAt) => Some(s.lastValue) = obs[k].passedValue

(* a kind was triggered, cleared and triggered again at a later time, a      *)
(* further call for it was suppressed, and a kind was left cleared           *)
C27_Witness ==
  /\ \E k \in AlertType :
       /\ alertStates[k].isActive
       /\ IsSome(alertStates[k].lastClearedAt)
       /\ Get(alertStates[k].lastClearedAt) < Get(alertStates[k].lastTriggeredAt)
  /\ \E k \in AlertType :
       /\ IsSome(obs[k].lastTrigger)
       /\ IsSome(alertStates[k].lastTriggeredAt)
       /\ Get(obs[k].lastTrigger) > Get(alertStates[k].lastTriggeredAt)


(* C28: with the default row, a feed whose dailyHoneyGainG stays at one      *)
(* value (here -205 g in every reading) makes HONEY_GAIN_LOW change state    *)
(* at most once.                                                             *)
C28_SteadyGainFlipsOnce ==
  scenario = "honeySteady" => FlipsFor("HONEY_GAIN_LOW") <= 1


(* C29: with tempMin * (1 + h) < tempMax in the cached row, TEMP_HIGH and    *)
(* TEMP_LOW are never active together, and with humidityMin * (1 + h) <      *)
(* humidityMax neither are HUMIDITY_HIGH and HUMIDITY_LOW.  It is stated     *)
(* here of the states in which no evaluation is in flight, so that the state *)
(* of a check suspended between its two kinds does not count.                *)
C29_HighAndLowNeverTogether ==
  ( IsSome(thresholds) /\ DOMAIN inv = {} ) =>
    LET th == Get(thresholds)
    IN /\ AboveLowClear(th.tempMax, th.tempMin) =>
            ~( alertStates["TEMP_HIGH"].isActive
               /\ alertStates["TEMP_LOW"].isActive )
       /\ AboveLowClear(th.humidityMax, th.humidityMin) =>
            ~( alertStates["HUMIDITY_HIGH"].isActive
               /\ alertStates["HUMIDITY_LOW"].isActive )


(* C30: when invocations overlap, no kind is flipped to active twice without *)
(* a flip to inactive in between, nor to inactive twice without a flip to    *)
(* active in between: of the calls that pass the debounce test for a kind,   *)
(* no two running are of the same function, and each leaves isActive as its  *)
(* direction says.                                                           *)
C30_NoDoubleFlipWhenOverlapping ==
  \A k \in AlertType :
    /\ ~obs[k].repeated
    /\ obs[k].lastDone = "triggerAlert" => alertStates[k].isActive
    /\ obs[k].lastDone = "clearAlert" => ~alertStates[k].isActive
    /\ obs[k].nTriggered >= obs[k].nCleared
    /\ obs[k].nTriggered <= obs[k].nCleared + 1

(* two invocations are in flight, the first suspended at the audit insert of *)
(* its CO2_HIGH trigger, the second has run its checks on a reading that is  *)
(* above co2Max too, and CO2_HIGH has flipped once                           *)
C30_Witness ==
  \E i, j \in DOMAIN inv :
    /\ i # j
    /\ ~inv[i].loading /\ ~inv[j].loading
    /\ inv[i].awaits["checkCo2Alerts"]
    /\ inv[j].pos["checkCo2Alerts"] > StageCount["checkCo2Alerts"]
    /\ ~inv[j].awaits["checkCo2Alerts"]
    /\ inv[i].data.co2Ppm > DEFAULT_THRESHOLDS.co2Max
    /\ inv[j].data.co2Ppm > DEFAULT_THRESHOLDS.co2Max
    /\ alertStates["CO2_HIGH"].isActive
    /\ FlipsFor("CO2_HIGH") = 1


(* the audit rows of kind k that the inserts waiting on the connection will  *)
(* store, in the order the inserts were sent                                 *)
PendingRows(k) ==
  LET OfKind(query) == query.q = "insert" /\ Get(query.call).type = k
      waiting == SelectSeq(connection, OfKind)
  IN [ n \in DOMAIN waiting |->
         [ hiveId |-> HIVE_ID,
           type |-> IF Get(waiting[n].call).fn = "triggerAlert" THEN k
                    ELSE k \o "_CLEARED" ] ]

(* the events published for kind k, in order *)
KindEvents(k) ==
  LET OfKind(e) == e.type = k
  IN SelectSeq(emitted, OfKind)

(* C31: with overlapping invocations, the audit rows and the events of a     *)
(* kind become visible in the order of its flips.  The events of a kind      *)
(* follow its stored rows one for one; and for a kind none of whose writes   *)
(* has failed, the rows stored followed by the rows still to be stored are   *)
(* as many as its flips and alternate K, K_CLEARED beginning with K, so a    *)
(* K_CLEARED row is never stored before the K row of the trigger it clears.  *)
C31_RowsInFlipOrder ==
  \A k \in AlertType :
    /\ Len(KindEvents(k)) = Len(KindRows(k))
    /\ \A n \in DOMAIN KindRows(k) :
         KindEvents(k)[n].event = "alert.triggered" <=> KindRows(k)[n].type = k
    /\ obs[k].nFailed = 0 =>
         LET rows == KindRows(k) \o PendingRows(k)
         IN /\ Len(rows) = FlipsFor(k)
            /\ Alternates(rows)
            /\ rows # << >> => rows[1].type = k

(* the row of a trigger has just been stored by one invocation while the     *)
(* insert of the clear that followed it, issued by another invocation        *)
(* before the trigger's insert was answered, still waits on the connection   *)
C31_Witness ==
  \E n \in DOMAIN did, m \in DOMAIN connection :
    /\ did[n].op = "insert"
    /\ did[n].fn = "triggerAlert"
    /\ connection[m].q = "insert"
    /\ Get(connection[m].call).type = did[n].type
    /\ Get(connection[m].call).fn = "clearAlert"
    /\ connection[m].inv # did[n].inv
    /\ KindRows(did[n].type) = << [ hiveId |-> HIVE_ID, type |-> did[n].type ] >>


(* the reading of a scripted feed that was delivered last *)
LastDelivered ==
  LET script == Scenarios[scenario].script
  IN script[((delivered - 1) % Len(script)) + 1]

(* C32: when the evaluations of two readings overlap, the weight tracker     *)
(* holds the weight of the later reading once both have completed.  Stated   *)
(* of the scripted feed of falling weights (every reading has another        *)
(* weight), with the thresholds loaded at start-up and no failed query.      *)
C32_TrackerHoldsLatestReading ==
  ( /\ scenario = "weightLine"
    /\ delivered >= 2
    /\ DOMAIN inv = {}
    /\ dbFailures = 0 )
  => lastWeight = Some(LastDelivered.weightKg)


(* the readings a step evaluates for CO2_HIGH *)
Co2Readings(d) ==
  { d[n].data.co2Ppm : n \in { m \in ChecksIn(d) : "CO2_HIGH" \in d[m].kinds } }

(* every reading evaluated by the step is beyond the trigger line of        *)
(* CO2_HIGH, or strictly inside its clear line                              *)
Co2OnlyBeyond ==
  \A v \in Co2Readings(did') : v > Get(thresholds).co2Max

Co2OnlyInside ==
  \A v \in Co2Readings(did') : BelowHighClear(v, Get(thresholds).co2Max)

(* a reading beyond the trigger line, evaluated while CO2_HIGH is inactive   *)
(* and a debounce window or more after its last trigger, makes it active;    *)
(* a reading inside the clear line, evaluated while it is active and a       *)
(* window or more after its last clear, makes it inactive                    *)
Co2FlipsAfterOneWindow ==
  \A v \in Co2Readings(did') :
    LET s == alertStates["CO2_HIGH"]
    IN /\ ( /\ v > Get(thresholds).co2Max
            /\ ~s.isActive
            /\ \/ s.lastTriggeredAt = None
               \/ now - Get(s.lastTriggeredAt) >= ALERT_DEBOUNCE_MS )
          => alertStates'["CO2_HIGH"].isActive
       /\ ( /\ BelowHighClear(v, Get(thresholds).co2Max)
            /\ s.isActive
            /\ \/ s.lastClearedAt = None
               \/ now - Get(s.lastClearedAt) >= ALERT_DEBOUNCE_MS )
          => ~alertStates'["CO2_HIGH"].isActive

(* C33: with the thresholds loaded, readings arriving without end and the    *)
(* clock advancing: if from some point on every reading is beyond the        *)
(* trigger line of CO2_HIGH (co2Max, positive), the kind is eventually       *)
(* active for good; if from some point on every reading is strictly inside   *)
(* its clear line, the kind is eventually inactive for good; and the         *)
(* debounce holds a flip back for no longer than one window.                 *)
C33_SimpleKindSettles ==
  /\ <>[][Co2OnlyBeyond]_vars => <>[](alertStates["CO2_HIGH"].isActive)
  /\ <>[][Co2OnlyInside]_vars => <>[](~alertStates["CO2_HIGH"].isActive)
  /\ [][Co2FlipsAfterOneWindow]_vars

(* CO2_HIGH is active again after a clear: its second trigger was held back  *)
(* by the debounce and went through once the window had passed               *)
C33_Witness ==
  /\ scenario \in LiveScenarios
  /\ alertStates["CO2_HIGH"].isActive
  /\ IsSome(alertStates["CO2_HIGH"].lastClearedAt)
  /\ now = EndOfClock
  /\ obs["CO2_HIGH"] = InitialObs


(* C34: while WEIGHT_DROP is active, a reading that is not lighter than the  *)
(* tracked one, and a reading not later than it or more than an hour later,  *)
(* calls neither triggerAlert nor clearAlert and leaves the kind active; the *)
(* kind becomes inactive only on a reading lighter than the tracked one,     *)
(* within the hour, whose drop per hour is at or below                       *)
(* maxWeightDropPerHourKg * 0.95.                                            *)
C34_SteadyWeightKeepsAlert ==
  [][ alertStates["WEIGHT_DROP"].isActive =>
        \A m \in WeightChecksIn(did') :
          IF DropInWindow(did'[m].data, lastWeight, lastWeightTime)
          THEN alertStates'["WEIGHT_DROP"].isActive
               \/ (Get(lastWeight) - did'[m].data.weightKg) * 3600 * 100
                    <= Get(thresholds').maxWeightDropPerHourKg
                         * (100 - ALERT_HYSTERESIS_PERCENT)
                         * SecondsSince(did'[m].data, lastWeightTime)
          ELSE /\ alertStates'["WEIGHT_DROP"] = alertStates["WEIGHT_DROP"]
               /\ EventsFor(did', "call", "WEIGHT_DROP") = {}
    ]_vars

(* WEIGHT_DROP was triggered and, still active, has just been evaluated on   *)
(* a reading of 25.50 kg, the heaviest of the feed, which left it active     *)
C34_Witness ==
  /\ scenario = "weight"
  /\ alertStates["WEIGHT_DROP"].isActive
  /\ obs["WEIGHT_DROP"].nTriggered = 1
  /\ obs["WEIGHT_DROP"].nCleared = 0
  /\ EventsFor(did, "flip", "WEIGHT_DROP") = {}
  /\ \E m \in WeightChecksIn(did) : did[m].data.weightKg = 2550
  /\ lastWeight = Some(2550)
  /\ PendingFor(connection, "WEIGHT_DROP") = {}


(* a time a reading could carry instead of its recordedAt: one debounce   *)
(* window ahead of the clock, or the epoch for a reading stamped ahead    *)
OtherStamp(data) ==
  IF data.recordedAt > now THEN 0 ELSE now + ALERT_DEBOUNCE_MS

(* C35: the debounce is measured on the clock at processing.  For every kind *)
(* but WEIGHT_DROP, what a step does with a reading is what it would do with *)
(* the same reading under another recordedAt: the same call with the same   *)
(* value, and the same AlertState after it.                                  *)
C35_RecordedAtNotRead ==
  [][ \A m \in ChecksIn(did') : \A k \in did'[m].kinds \ { "WEIGHT_DROP" } :
          LET other == [ did'[m].data EXCEPT
                           !.recordedAt = OtherStamp(did'[m].data) ]
              d == Decide(k, other, Get(thresholds'), alertStates[k].isActive,
                          lastWeight, lastWeightTime)
          IN /\ alertStates'[k] =
                  IF d.fn = "none" THEN alertStates[k]
                  ELSE Call(alertStates[k], d.fn, d.value,
                            DebounceClock(other, now)).state
             /\ \A n \in EventsFor(did', "call", k) :
                  did'[n].inv = did'[m].inv =>
                    did'[n].fn = d.fn /\ did'[n].value = d.value
             /\ d.fn # "none" =>
                  \E n \in EventsFor(did', "call", k) : did'[n].inv = did'[m].inv
    ]_vars

(* a reading above co2Max stamped ten minutes ahead of the clock has just    *)
(* been processed inside the debounce window of CO2_HIGH: by its recordedAt  *)
(* the window has passed, and the trigger was suppressed all the same        *)
C35_Witness ==
  /\ scenario = "co2Stamped"
  /\ ~alertStates["CO2_HIGH"].isActive
  /\ IsSome(alertStates["CO2_HIGH"].lastTriggeredAt)
  /\ Called(did, "CO2_HIGH", "triggerAlert")
  /\ now - Get(alertStates["CO2_HIGH"].lastTriggeredAt) < ALERT_DEBOUNCE_MS
  /\ \E m \in ChecksIn(did) :
       did[m].data.recordedAt - Get(alertStates["CO2_HIGH"].lastTriggeredAt)
         >= ALERT_DEBOUNCE_MS


(* the value of a field differs: a time by the instant it holds *)
ValueDiffers(field, current, last) ==
  IF field = "recordedAt" THEN current.ms # last.ms ELSE current # last

(* the broadcasts of a sequence of steps *)
BroadcastsIn(d) == { n \in DOMAIN d : d[n].op = "broadcast" }

(* C36: the first 'telemetry.created' is broadcast with the full record;     *)
(* for every later one the data broadcast holds exactly the fields, of the   *)
(* eight sensor fields and recordedAt, whose value differs from the cached   *)
(* record, and nothing is broadcast when none differs; after a broadcast the *)
(* cache is the record broadcast; a client that connects while a record is   *)
(* cached is sent that record in full.                                       *)
C36_DeltaBroadcasts ==
  [][ /\ \A n \in DOMAIN did' :
           did'[n].op = "created" =>
             LET record == did'[n].record
             IN IF gateway.lastTelemetry = None
                THEN /\ \E m \in BroadcastsIn(did') :
                          did'[m].payload.full = Some(record)
                     /\ gateway'.lastTelemetry = Some(record)
                ELSE LET last == Get(gateway.lastTelemetry)
                         differing ==
                           { DeltaFields[i] : i \in
                               { j \in DOMAIN DeltaFields :
                                   ValueDiffers(DeltaFields[j],
                                                record[DeltaFields[j]],
                                                last[DeltaFields[j]]) } }
                     IN IF differing = {}
                        THEN /\ BroadcastsIn(did') = {}
                             /\ gateway' = gateway
                        ELSE /\ \E m \in BroadcastsIn(did') :
                                  /\ DOMAIN did'[m].payload.data = differing
                                  /\ \A f \in differing :
                                       did'[m].payload.data[f] = record[f]
                             /\ gateway'.lastTelemetry = Some(record)
      /\ ( /\ gateway'.connectedClients # gateway.connectedClients
           /\ gateway.connectedClients \subseteq gateway'.connectedClients
           /\ gateway.lastTelemetry # None )
         => \E n \in DOMAIN did' :
              /\ did'[n].op = "send"
              /\ did'[n].client \in gateway'.connectedClients
              /\ did'[n].payload.full = gateway.lastTelemetry
    ]_vars


(* C37: under any interleaving of concurrent getThresholds and               *)
(* updateThresholds calls for one hive no call ends in an error, a call that *)
(* returns leaves the store holding the row of the hive, and the update of   *)
(* updateThresholds writes the fields of its argument and leaves every other *)
(* field of the row as it was.                                               *)
C37_ServiceCallsComplete ==
  [][ \A n \in DOMAIN did' :
        /\ did'[n].op # "threw"
        /\ did'[n].op = "returned" => thresholdsRow' # None
        /\ did'[n].op = "updated" =>
             /\ thresholdsRow # None
             /\ thresholdsRow' # None
             /\ \A f \in DOMAIN Get(thresholdsRow) :
                  Get(thresholdsRow')[f] =
                    IF f \in DOMAIN did'[n].updateData
                    THEN did'[n].updateData[f]
                    ELSE Get(thresholdsRow)[f]
    ]_vars


==========================================================================
